---- MODULE Spec2Model ----
(***************************************************************************)
(* finterm: the provider registry / aggregator (src/providers/registry.rs), *)
(* the sled-backed TTL cache (src/cache/mod.rs, src/models/cache.rs), the   *)
(* feed providers (src/providers/hackernews.rs, cratesio.rs, finnhub.rs,    *)
(* arxiv.rs, reddit.rs) and Reddit's comment trees.                         *)
(***************************************************************************)
EXTENDS Integers, Sequences, FiniteSets, TLC

(***************************************************************************)
(* Bounds of the model.                                                    *)
(***************************************************************************)
MaxItems == 2
MaxRegOps == 5
MaxCacheOps == 3
MaxNow == 4
MaxSizeMb == 2
TicksPerSec == 2
TtlBits == 3
ModelMb == 100
MaxValueLen == 32
MaxProvOps == 3
HnTopLen == 27
CratesTotal == 102
FeedTotal == 3
MaxNodes == 4
MaxFeed == 2
MaxAppItems == 3
MaxLoads == 2

VARIABLES
    providers,      \* ProviderRegistry.providers: id -> instance, or NoProvider
    order,          \* ProviderRegistry.order: ids in insertion order
    pc,             \* position of the caller inside fetch_all / fetch_from
    req,            \* the call in progress: operation and arguments
    fa_providers,   \* fetch_all: local `providers` (the ready() snapshot)
    fa_idx,         \* fetch_all: position of the for loop
    all_items,      \* fetch_all: local `all_items`
    calls,          \* history of fetch_items calls: issue and complete events
    ret,            \* value returned by the last registry operation
    regOps,         \* number of register / register_arc / remove calls so far
    firstOrder,     \* history: ids in the order of their first registration ever
    addOrder        \* history: ids in the order of their latest registration
                    \*          made while the id was not registered

regVars == <<providers, order, pc, req, fa_providers, fa_idx, all_items,
             calls, ret, regOps, firstOrder, addOrder>>

VARIABLES
    db,             \* CacheManager.db: key string -> stored entry, or NoEntry
    stats,          \* CacheManager.stats
    max_size_bytes, \* CacheManager.max_size_bytes
    now,            \* Utc::now(), in ticks of 1/TicksPerSec second
    creq,           \* the last cache call: operation and arguments
    cret,           \* what the last cache call returned
    cacheOps,       \* number of cache calls so far
    writtenKeys,    \* history: key strings some set has written
    expiredKeys,    \* history: key strings whose latest get returned Expired,
                    \*          with no set of the key since
    cevicted        \* history: the entries evict_if_needed removed in the last
                    \*          cache call

cacheVars == <<db, stats, max_size_bytes, now, creq, cret, cacheOps,
               writtenKeys, expiredKeys, cevicted>>

VARIABLES
    hn_kind,        \* the Hacker News server: what the item requests of the
                    \* first ids of the Top list yield (see kind_of)
    category,       \* HackerNewsProvider.category
    cached_ids,     \* HackerNewsProvider.cached_ids: the Vec inside the Mutex
    hn_lock,        \* the Mutex of cached_ids: "free", or "held" by a live guard
    hn_pc,          \* position of the caller inside a HackerNewsProvider method
    hn_req,         \* the call in progress: operation and arguments
    hn_ids,         \* local `ids` of fetch_items / fetch_items_by_ids
    hn_pos,         \* start of the current chunk of ids.chunks(batch_size)
    hn_inflight,    \* item requests of the current join_all not yet completed
    hn_items,       \* local `all_items` of fetch_items / fetch_items_by_ids
    hn_ret,         \* what the call returned
    prev_category,  \* history: the category before the last set_category,
                    \*          "none" before the first
    cached_for      \* history: the category whose ID list cached_ids was
                    \*          captured from, "none" while nothing is cached

VARIABLE provOps    \* number of provider calls so far

hnVars == <<hn_kind, category, cached_ids, hn_lock, hn_pc, hn_req, hn_ids,
            hn_pos, hn_inflight, hn_items, hn_ret, prev_category, cached_for>>

VARIABLES
    api_key,        \* FinnhubProvider.api_key
    sp_pc,          \* position of the caller inside a crates.io, Finnhub,
                    \* arXiv or Reddit method
    sp_req,         \* the call in progress: provider, operation, arguments
    sp_sent,        \* HTTP requests the call in progress has sent
    sp_subs,        \* Reddit: how the request of each subreddit ended
    sp_ret          \* what the call returned

spVars == <<api_key, sp_pc, sp_req, sp_sent, sp_subs, sp_ret>>

VARIABLES
    c_parent,       \* the comment listing of the response: parent of each node
    c_kind,         \* ... and what each node is
    c_max_depth,    \* fetch_comments: argument max_depth
    c_pc,           \* position of the caller inside fetch_comments
    c_ret           \* what fetch_comments returned

comVars == <<c_parent, c_kind, c_max_depth, c_pc, c_ret>>

VARIABLES
    state,            \* App.state: the view, and the provider id of Feed(id)
    should_quit,      \* App.should_quit
    app_items,        \* App.items
    selected_idx,     \* App.selected_idx
    current_item,     \* App.current_item: an item, or None
    landing_selected, \* App.landing_selected
    comments,         \* App.comments
    comments_loading, \* App.comments_loading
    loading,          \* App.loading
    app_pc,           \* position of the event loop of App::run
    app_req,          \* the call the event loop awaits
    app_res,          \* what the last awaited call returned
    opened_from,      \* the view in which the open article was selected
    comment_loads     \* comment loads since the last ViewComments

appVars == <<state, should_quit, app_items, selected_idx, current_item,
             landing_selected, comments, comments_loading, loading, app_pc,
             app_req, app_res, opened_from, comment_loads>>

VARIABLES
    disk,           \* the store directory: its condition and its records
    open_pc,        \* position of the caller inside CacheManager::new
    open_ret        \* what CacheManager::new returned

storeVars == <<disk, open_pc, open_ret>>

sysVars == <<appVars, storeVars>>

provVars == <<hnVars, spVars, provOps, comVars>>

\* The caller awaits one provider call at a time.
ProvIdle == hn_pc = "idle" /\ sp_pc = "idle"

vars == <<regVars, cacheVars, provVars, sysVars>>

(***************************************************************************)
(* Providers (src/providers/mod.rs).                                       *)
(***************************************************************************)
ProviderIds == {"hackernews", "reddit", "finnhub"}

ProviderStatus == {"Ready", "NeedsConfig", "Disabled", "Error"}

\* ProviderError kinds a fetch_items call is made to fail with here.
ProviderError == {"Network", "RateLimit"}

\* One provider instance: gen tells apart two instances with the same id.
Gens == {1, 2}

Instances == [id : ProviderIds, gen : Gens, status : ProviderStatus]

\* Values of FeedItem.published_at.
PublishedAts == {1, 2}

\* Option::None of HashMap::get.
NoProvider == [id |-> "", gen |-> 0, status |-> ""]

NoRet == [kind |-> "none"]

is_ready(p) == p.status = "Ready"

(***************************************************************************)
(* Sequence helpers.                                                       *)
(***************************************************************************)
Range(s) == {s[i] : i \in 1..Len(s)}

IndexOf(s, x) == CHOOSE i \in 1..Len(s) : s[i] = x

SeqsUpTo(S, n) == UNION {[1..k -> S] : k \in 0..n}

NoDup(s) == \A i, j \in 1..Len(s) : i # j => s[i] # s[j]

(***************************************************************************)
(* ProviderRegistry: register, register_arc, get, all, ready, remove.      *)
(***************************************************************************)
contains_key(map, id) == map[id] # NoProvider

\* register / register_arc, lines 28-30 and 37-39: push the id when it is new.
PushIfAbsentAlways(ord, map, id) == Append(ord, id)

PushIfAbsent(ord, map, id) ==
    IF ~contains_key(map, id) THEN Append(ord, id) ELSE ord

\* HashMap::insert, lines 31 and 40.
Insert(map, p) == [map EXCEPT ![p.id] = p]

\* A removal that fills the hole with the last id (Vec::swap_remove).
RetainSwapRemove(ord, id) ==
    IF id \notin Range(ord) THEN ord
    ELSE LET i == IndexOf(ord, id)
             n == Len(ord)
         IN SubSeq([ord EXCEPT ![i] = ord[n]], 1, n - 1)

\* remove, line 81: order.retain(|i| i != id).
Retain(ord, id) == SelectSeq(ord, LAMBDA i : i # id)

get(map, id) == map[id]

\* all(): order.iter().filter_map(|id| providers.get(id).cloned()).
RECURSIVE FilterMapGet(_, _)
FilterMapGet(ord, map) ==
    IF ord = <<>> THEN <<>>
    ELSE LET rest == FilterMapGet(Tail(ord), map)
         IN IF contains_key(map, Head(ord))
            THEN <<get(map, Head(ord))>> \o rest
            ELSE rest

All(ord, map) == FilterMapGet(ord, map)

\* ready(): all().into_iter().filter(|p| p.is_ready()).
ReadyNotDisabled(ord, map) ==
    SelectSeq(All(ord, map), LAMBDA p : p.status # "Disabled")

Ready(ord, map) == SelectSeq(All(ord, map), is_ready)

len(map) == Cardinality({id \in ProviderIds : contains_key(map, id)})

ids(ord) == ord

IdsOf(ps) == [i \in 1..Len(ps) |-> ps[i].id]

(***************************************************************************)
(* fetch_all: merge and sort.                                              *)
(***************************************************************************)
\* What one fetch_items call can produce: Ok(items) or Err(e).  An item is
\* identified by its provider and its position in that provider's answer.
ItemsOf(p, ts) ==
    [n \in 1..Len(ts) |-> [provider_id |-> p.id, id |-> n, published_at |-> ts[n]]]

FetchResults(p) ==
    {[ok |-> TRUE, items |-> ItemsOf(p, ts), err |-> ""] :
        ts \in SeqsUpTo(PublishedAts, MaxItems)}
    \cup {[ok |-> FALSE, items |-> <<>>, err |-> e] : e \in ProviderError}

\* The match of lines 91-97: Ok extends all_items, Err only logs.
ExtendItemsAbortOnErr(items, res) ==
    IF res.ok THEN items \o res.items ELSE <<>>

ExtendItems(items, res) ==
    IF res.ok THEN items \o res.items ELSE items

\* Line 101: all_items.sort_by(|a, b| b.published_at.cmp(&a.published_at)).
\* sort_by is a stable sort; the comparator puts a before b when a is newer.
Before(a, b) == b.published_at < a.published_at

\* A sort that is not stable: x goes in front of the elements equal to it.
RECURSIVE InsertBeforeTies(_, _)
InsertBeforeTies(sorted, x) ==
    IF sorted = <<>> THEN <<x>>
    ELSE IF ~Before(Head(sorted), x) THEN <<x>> \o sorted
    ELSE <<Head(sorted)>> \o InsertBeforeTies(Tail(sorted), x)

\* Stable insertion: x goes behind every element that need not follow it.
RECURSIVE InsertStable(_, _)
InsertStable(sorted, x) ==
    IF sorted = <<>> THEN <<x>>
    ELSE IF Before(x, Head(sorted)) THEN <<x>> \o sorted
    ELSE <<Head(sorted)>> \o InsertStable(Tail(sorted), x)

RECURSIVE SortByPublished(_)
SortByPublished(items) ==
    IF items = <<>> THEN <<>>
    ELSE InsertStable(SortByPublished(SubSeq(items, 1, Len(items) - 1)),
                      items[Len(items)])

(***************************************************************************)
(* The registry's operations.                                              *)
(***************************************************************************)
\* The registry holding the providers of map in the order ord, no call in
\* progress.  ProviderRegistry::new() is RegistryIs(<<>>, no provider).
RegistryIs(ord, map) ==
    /\ providers = map
    /\ order = ord
    /\ pc = "idle"
    /\ req = [op |-> "none"]
    /\ fa_providers = <<>>
    /\ fa_idx = 0
    /\ all_items = <<>>
    /\ calls = <<>>
    /\ ret = NoRet
    /\ regOps = 0
    /\ firstOrder = ord
    /\ addOrder = ord

fetchVars == <<fa_providers, fa_idx, all_items, calls>>

\* Shared body of register and register_arc.
RegisterBody(p, opname) ==
    /\ pc = "idle"
    /\ regOps < MaxRegOps
    /\ order' = PushIfAbsent(order, providers, p.id)
    /\ providers' = Insert(providers, p)
    /\ regOps' = regOps + 1
    /\ req' = [op |-> opname, p |-> p, was_present |-> contains_key(providers, p.id)]
    /\ ret' = NoRet
    /\ firstOrder' = IF p.id \in Range(firstOrder) THEN firstOrder
                     ELSE Append(firstOrder, p.id)
    /\ addOrder' = IF contains_key(providers, p.id) THEN addOrder
                   ELSE Append(SelectSeq(addOrder, LAMBDA i : i # p.id), p.id)
    /\ UNCHANGED <<cacheVars, provVars, sysVars>>
    /\ UNCHANGED <<pc, fetchVars>>

Register(p) == RegisterBody(p, "register")

RegisterArc(p) == RegisterBody(p, "register_arc")

\* HashMap::remove, line 82.
MapRemoveKeep(map, id) == map

MapRemove(map, id) == [map EXCEPT ![id] = NoProvider]

Remove(id) ==
    /\ pc = "idle"
    /\ regOps < MaxRegOps
    /\ order' = Retain(order, id)
    /\ providers' = MapRemove(providers, id)
    /\ ret' = [kind |-> "option", p |-> get(providers, id)]
    /\ regOps' = regOps + 1
    /\ req' = [op |-> "remove", id |-> id]
    /\ UNCHANGED <<cacheVars, provVars, sysVars>>
    /\ UNCHANGED <<pc, fetchVars, firstOrder, addOrder>>

\* fetch_all, lines 87-88.
FetchAllStart(limit) ==
    /\ pc = "idle"
    /\ req' = [op |-> "fetch_all", limit |-> limit]
    /\ fa_providers' = Ready(order, providers)
    /\ all_items' = <<>>
    /\ fa_idx' = 1
    /\ calls' = <<>>
    /\ ret' = NoRet
    /\ pc' = "fa_loop"
    /\ UNCHANGED <<cacheVars, provVars, sysVars>>
    /\ UNCHANGED <<providers, order, regOps, firstOrder, addOrder>>

\* Line 91: provider.fetch_items(limit_per_provider) is called ...
FetchAllIssue ==
    /\ pc = "fa_loop"
    /\ fa_idx <= Len(fa_providers)
    /\ calls' = Append(calls, [ev |-> "issue", p |-> fa_providers[fa_idx],
                               limit |-> req.limit])
    /\ pc' = "fa_await"
    /\ UNCHANGED <<cacheVars, provVars, sysVars>>
    /\ UNCHANGED <<providers, order, req, fa_providers, fa_idx, all_items, ret,
                   regOps, firstOrder, addOrder>>

\* ... and .await resumes with its result, lines 91-97.
FetchAllComplete(res) ==
    /\ pc = "fa_await"
    /\ res \in FetchResults(fa_providers[fa_idx])
    /\ calls' = Append(calls, [ev |-> "complete", p |-> fa_providers[fa_idx],
                               res |-> res])
    /\ all_items' = ExtendItems(all_items, res)
    /\ fa_idx' = fa_idx + 1
    /\ pc' = "fa_loop"
    /\ UNCHANGED <<cacheVars, provVars, sysVars>>
    /\ UNCHANGED <<providers, order, req, fa_providers, ret, regOps,
                   firstOrder, addOrder>>

\* Lines 100-103: sort and return.
FetchAllReturn ==
    /\ pc = "fa_loop"
    /\ fa_idx > Len(fa_providers)
    /\ ret' = [kind |-> "items", items |-> SortByPublished(all_items)]
    /\ pc' = "fa_done"
    /\ UNCHANGED <<cacheVars, provVars, sysVars>>
    /\ UNCHANGED <<providers, order, req, fa_providers, fa_idx, all_items,
                   calls, regOps, firstOrder, addOrder>>

\* fetch_from, lines 108-111: look the provider up, then call it.
FetchFromLookupReady(map, id) ==
    IF is_ready(get(map, id)) THEN get(map, id) ELSE NoProvider

FetchFromLookup(map, id) == get(map, id)

FetchFromStart(id, limit) ==
    /\ pc = "idle"
    /\ req' = [op |-> "fetch_from", id |-> id, limit |-> limit]
    /\ fa_providers' = <<>>
    /\ all_items' = <<>>
    /\ fa_idx' = 0
    /\ LET p == FetchFromLookup(providers, id)
       IN IF p = NoProvider
          THEN /\ ret' = [kind |-> "result",
                          res |-> [ok |-> FALSE, items |-> <<>>,
                                   err |-> "NotConfigured"]]
               /\ calls' = <<>>
               /\ pc' = "ff_done"
          ELSE /\ ret' = NoRet
               /\ calls' = <<[ev |-> "issue", p |-> p, limit |-> limit]>>
               /\ pc' = "ff_await"
    /\ UNCHANGED <<cacheVars, provVars, sysVars>>
    /\ UNCHANGED <<providers, order, regOps, firstOrder, addOrder>>

FetchFromComplete(res) ==
    /\ pc = "ff_await"
    /\ res \in FetchResults(calls[1].p)
    /\ calls' = Append(calls, [ev |-> "complete", p |-> calls[1].p, res |-> res])
    /\ ret' = [kind |-> "result", res |-> res]
    /\ pc' = "ff_done"
    /\ UNCHANGED <<cacheVars, provVars, sysVars>>
    /\ UNCHANGED <<providers, order, req, fa_providers, fa_idx, all_items,
                   regOps, firstOrder, addOrder>>

\* The caller takes the returned value; the registry is free again.
Return ==
    /\ pc \in {"fa_done", "ff_done"}
    /\ pc' = "idle"
    /\ fa_providers' = <<>>
    /\ fa_idx' = 0
    /\ all_items' = <<>>
    /\ calls' = <<>>
    /\ ret' = NoRet
    /\ req' = [op |-> "none"]
    /\ UNCHANGED <<cacheVars, provVars, sysVars>>
    /\ UNCHANGED <<providers, order, regOps, firstOrder, addOrder>>

Limits == 1..MaxItems

\* The providers handed to register / register_arc: like the MockProvider of
\* the registry's tests, ready or disabled.
RegisterInputs == {p \in Instances : p.status \in {"Ready", "Disabled"}}

NextRegistry ==
    \/ \E p \in RegisterInputs : Register(p)
    \/ \E p \in RegisterInputs : RegisterArc(p)
    \/ \E id \in ProviderIds : Remove(id)

NextFetch ==
    \/ \E limit \in Limits : FetchAllStart(limit)
    \/ FetchAllIssue
    \/ \E res \in UNION {FetchResults(p) : p \in Instances} : FetchAllComplete(res)
    \/ FetchAllReturn
    \/ \E id \in ProviderIds, limit \in Limits : FetchFromStart(id, limit)
    \/ \E res \in UNION {FetchResults(p) : p \in Instances} : FetchFromComplete(res)
    \/ Return

(***************************************************************************)
(* Cache keys and entries (src/models/cache.rs).                           *)
(***************************************************************************)
\* The keys used here; ids have one decimal digit.
CacheKeys == {[kind |-> "HnStory", id |-> 1], [kind |-> "HnComments", id |-> 1]}

\* The stored key string, as the pair of its prefix and the formatted id.
as_cache_key(key) ==
    CASE key.kind = "AletheiaArticle" -> <<"aletheia:article:", key.id>>
      [] key.kind = "HnStory" -> <<"hn:story:", key.id>>
      [] key.kind = "HnComments" -> <<"hn:comments:", key.id>>
      [] key.kind = "HnStoryList" -> <<"hn:list:", key.id>>

KeyStrs == {as_cache_key(key) : key \in CacheKeys}

\* Length in bytes of a key string.
KeyLen(ks) ==
    1 + (CASE ks[1] = "aletheia:article:" -> 17
           [] ks[1] = "hn:story:" -> 9
           [] ks[1] = "hn:comments:" -> 12
           [] ks[1] = "hn:list:" -> 8)

\* Byte order of key strings, the order in which sled iterates.
PrefixRank(pre) ==
    CASE pre = "aletheia:article:" -> 1
      [] pre = "hn:comments:" -> 2
      [] pre = "hn:list:" -> 3
      [] pre = "hn:story:" -> 4

KeyLess(a, b) ==
    \/ PrefixRank(a[1]) < PrefixRank(b[1])
    \/ a[1] = b[1] /\ a[2] < b[2]

\* The cached payloads: strings, as sequences of characters; a short one and
\* one of MaxValueLen characters.
Values == {<<"x">>, [i \in 1..MaxValueLen |-> "z"]}

\* ttl_seconds is a u64 and is_valid casts it to i64; the model keeps both
\* widths, scaled down to TtlBits bits.
U64Max == 2^TtlBits - 1

I64Max == 2^(TtlBits - 1) - 1

as_i64(u) == IF u > I64Max THEN u - 2^TtlBits ELSE u

Ttls == {0, 2, I64Max + 1}

NoEntry == [absent |-> TRUE]

\* CacheEntry::new, lines 14-20.
CacheEntry_new(data, ttl_seconds, t) ==
    [data |-> data, cached_at |-> t, ttl_seconds |-> ttl_seconds]

\* Duration::num_seconds: whole seconds, truncated toward zero.
num_seconds(d) ==
    IF d >= 0 THEN d \div TicksPerSec ELSE 0 - ((0 - d) \div TicksPerSec)

\* DateTime::timestamp: whole seconds since the epoch.
timestamp(t) == t \div TicksPerSec

\* CacheEntry::is_valid, lines 23-27.
is_valid(entry, t) ==
    num_seconds(t - entry.cached_at) < as_i64(entry.ttl_seconds)

RECURSIVE Digits(_)
Digits(n) == IF n < 10 THEN 1 ELSE 1 + Digits(n \div 10)

\* serde_json::to_vec(&entry): the bytes are the entry's JSON text,
\* {"data":"..","cached_at":"<RFC 3339, nanoseconds>","ttl_seconds":N}.
to_vec(entry) ==
    [json |-> entry, len |-> 71 + Len(entry.data) + Digits(entry.ttl_seconds)]

\* serde_json::from_slice.
from_slice(bytes) == bytes.json

\* serde_json::from_slice(&data) is Ok: the bytes are the JSON of a CacheEntry
\* of the requested type.
from_slice_ok(bytes) == "data" \in DOMAIN bytes.json

\* get, lines 58-59: map_err(CacheError::Serialization)? returns before any
\* counter is touched.
SerializationErrorAsMiss(s) == [s EXCEPT !.misses = @ + 1]

OnSerializationError(s) == s

(***************************************************************************)
(* CacheManager (src/cache/mod.rs).                                        *)
(***************************************************************************)
Present(d) == {ks \in KeyStrs : d[ks] # NoEntry}

\* db.iter(): the stored key strings in byte order.
RECURSIVE IterFrom(_)
IterFrom(S) ==
    IF S = {} THEN <<>>
    ELSE LET m == CHOOSE x \in S : \A y \in S \ {x} : KeyLess(x, y)
         IN <<m>> \o IterFrom(S \ {m})

Iter(d) == IterFrom(Present(d))

\* calculate_size, lines 115-121.
RECURSIVE SumSizes(_, _)
SumSizes(d, S) ==
    IF S = {} THEN 0
    ELSE LET ks == CHOOSE x \in S : TRUE
         IN KeyLen(ks) + d[ks].len + SumSizes(d, S \ {ks})

calculate_size_valid(d) ==
    SumSizes(d, {ks \in Present(d) : is_valid(from_slice(d[ks]), now)})

calculate_size(d) == SumSizes(d, Present(d))

\* entries.sort_by_key(|(_, ts)| *ts), line 141: a stable sort.
RECURSIVE InsertByTs(_, _)
InsertByTs(sorted, e) ==
    IF sorted = <<>> THEN <<e>>
    ELSE IF e.ts < Head(sorted).ts THEN <<e>> \o sorted
    ELSE <<Head(sorted)>> \o InsertByTs(Tail(sorted), e)

RECURSIVE SortByTs(_)
SortByTs(entries) ==
    IF entries = <<>> THEN <<>>
    ELSE InsertByTs(SortByTs(SubSeq(entries, 1, Len(entries) - 1)),
                    entries[Len(entries)])

\* Lines 129-138: (key, cached_at.timestamp()) of every stored entry.
CollectExpiredFirst(d) ==
    LET it == Iter(d)
    IN [i \in 1..Len(it) |->
          [key |-> it[i],
           ts |-> IF is_valid(from_slice(d[it[i]]), now)
                  THEN timestamp(from_slice(d[it[i]]).cached_at)
                  ELSE 0 - 1]]

CollectEntries(d) ==
    LET it == Iter(d)
    IN [i \in 1..Len(it) |->
          [key |-> it[i], ts |-> timestamp(from_slice(d[it[i]]).cached_at)]]

\* Line 144.
evict_count(n) == IF n \div 4 > 1 THEN n \div 4 ELSE 1

\* evict_if_needed, lines 124-152: the keys it removes.
EvictedAtBudget(d, budget) ==
    IF calculate_size(d) >= budget
    THEN LET entries == SortByTs(CollectEntries(d))
             k == evict_count(Len(entries))
         IN {entries[i].key : i \in 1..k} \cap {entries[i].key : i \in 1..Len(entries)}
    ELSE {}

Evicted(d, budget) ==
    IF calculate_size(d) > budget
    THEN LET entries == SortByTs(CollectEntries(d))
             k == evict_count(Len(entries))
         IN {entries[i].key : i \in 1..k} \cap {entries[i].key : i \in 1..Len(entries)}
    ELSE {}

\* get, line 66: the expired entry is removed.
KeepExpired(d, ks) == d

RemoveExpired(d, ks) == [d EXCEPT ![ks] = NoEntry]

\* remove, line 96: self.db.remove(&key_str).
DbRemoveAll(d, ks) == [k \in KeyStrs |-> NoEntry]

DbRemove(d, ks) == [d EXCEPT ![ks] = NoEntry]

\* clear, line 102: self.db.clear().
DbClearKeep(d) == d

DbClear(d) == [ks \in KeyStrs |-> NoEntry]

\* CacheStats::default().
CacheStats_default ==
    [total_entries |-> 0, total_size_bytes |-> 0,
     hits |-> 0, misses |-> 0, evictions |-> 0]

\* get, line 62: self.stats.hits += 1.
RecordHit(s) == [s EXCEPT !.hits = @ + 1]

\* get, lines 67 and 72: self.stats.misses += 1.
RecordMissAsHit(s) == [s EXCEPT !.hits = @ + 1]

RecordMiss(s) == [s EXCEPT !.misses = @ + 1]

\* evict_if_needed, line 147: self.stats.evictions += 1 for each removed key.
RecordNoEvictions(s, n) == s

RecordEvictions(s, n) == [s EXCEPT !.evictions = @ + n]

Ok(v) == [kind |-> "Ok", data |-> v, err |-> ""]

Err(e) == [kind |-> "Err", data |-> <<>>, err |-> e]

\* CacheManager::new(cache_path, max_size_mb) on an empty store; max_size_mb
\* is at least 1 (Config::validate rejects 0).
CacheNew(max_size_mb) ==
    /\ db = [ks \in KeyStrs |-> NoEntry]
    /\ stats = CacheStats_default
    /\ max_size_bytes = max_size_mb * ModelMb
    /\ now = 0
    /\ creq = [op |-> "none"]
    /\ cret = Ok(<<>>)
    /\ cacheOps = 0
    /\ writtenKeys = {}
    /\ expiredKeys = {}
    /\ cevicted = {}

\* get, lines 53-76.
Get(key) ==
    LET ks == as_cache_key(key)
    IN /\ cacheOps < MaxCacheOps
       /\ cacheOps' = cacheOps + 1
       /\ creq' = [op |-> "get", key |-> key]
       /\ IF db[ks] # NoEntry /\ ~from_slice_ok(db[ks])
          THEN /\ stats' = OnSerializationError(stats)
               /\ cret' = Err("Serialization")
               /\ UNCHANGED <<db, expiredKeys>>
          ELSE IF db[ks] # NoEntry
          THEN LET entry == from_slice(db[ks])
               IN IF is_valid(entry, now)
                  THEN /\ stats' = RecordHit(stats)
                       /\ cret' = Ok(entry.data)
                       /\ UNCHANGED <<db, expiredKeys>>
                  ELSE /\ db' = RemoveExpired(db, ks)
                       /\ stats' = RecordMiss(stats)
                       /\ cret' = Err("Expired")
                       /\ expiredKeys' = expiredKeys \cup {ks}
          ELSE /\ stats' = RecordMiss(stats)
               /\ cret' = Err("NotFound")
               /\ UNCHANGED <<db, expiredKeys>>
       /\ cevicted' = {}
       /\ UNCHANGED <<max_size_bytes, now, writtenKeys>>
       /\ UNCHANGED <<regVars, provVars, sysVars>>

\* set, lines 79-91, with evict_if_needed.
Set(key, value, ttl_seconds) ==
    LET ks == as_cache_key(key)
        entry == CacheEntry_new(value, ttl_seconds, now)
        written == [db EXCEPT ![ks] = to_vec(entry)]
        gone == Evicted(written, max_size_bytes)
    IN /\ cacheOps < MaxCacheOps
       /\ cacheOps' = cacheOps + 1
       /\ creq' = [op |-> "set", key |-> key, value |-> value,
                   ttl_seconds |-> ttl_seconds, at |-> now,
                   replaced |-> db[ks] # NoEntry]
       /\ db' = [k \in KeyStrs |-> IF k \in gone THEN NoEntry ELSE written[k]]
       /\ stats' = RecordEvictions(stats, Cardinality(gone))
       /\ cret' = Ok(<<>>)
       /\ writtenKeys' = writtenKeys \cup {ks}
       /\ expiredKeys' = expiredKeys \ {ks}
       /\ cevicted' = {[key |-> k, entry |-> from_slice(written[k])] : k \in gone}
       /\ UNCHANGED <<max_size_bytes, now>>
       /\ UNCHANGED <<regVars, provVars, sysVars>>

\* remove, lines 94-98.
CacheRemove(key) ==
    LET ks == as_cache_key(key)
    IN /\ cacheOps < MaxCacheOps
       /\ cacheOps' = cacheOps + 1
       /\ creq' = [op |-> "remove", key |-> key]
       /\ db' = DbRemove(db, ks)
       /\ cret' = Ok(<<>>)
       /\ cevicted' = {}
       /\ UNCHANGED <<stats, max_size_bytes, now, writtenKeys, expiredKeys>>
       /\ UNCHANGED <<regVars, provVars, sysVars>>

\* clear, lines 101-105.
Clear ==
    /\ cacheOps < MaxCacheOps
    /\ cacheOps' = cacheOps + 1
    /\ creq' = [op |-> "clear"]
    /\ db' = DbClear(db)
    /\ stats' = CacheStats_default
    /\ cret' = Ok(<<>>)
    /\ cevicted' = {}
    /\ UNCHANGED <<max_size_bytes, now, writtenKeys, expiredKeys>>
    /\ UNCHANGED <<regVars, provVars, sysVars>>

\* stats, lines 108-112.
Stats ==
    /\ cacheOps < MaxCacheOps
    /\ cacheOps' = cacheOps + 1
    /\ creq' = [op |-> "stats"]
    /\ stats' = [stats EXCEPT !.total_entries = Cardinality(Present(db)),
                              !.total_size_bytes = calculate_size(db)]
    /\ cret' = [kind |-> "Stats", data |-> stats', err |-> ""]
    /\ cevicted' = {}
    /\ UNCHANGED <<db, max_size_bytes, now, writtenKeys, expiredKeys>>
    /\ UNCHANGED <<regVars, provVars, sysVars>>

\* The clock moves on between two calls.
Tick ==
    /\ now < MaxNow
    /\ now' = now + 1
    /\ UNCHANGED <<db, stats, max_size_bytes, creq, cret, cacheOps,
                   writtenKeys, expiredKeys, cevicted>>
    /\ UNCHANGED <<regVars, provVars, sysVars>>

NextCache ==
    \/ \E key \in CacheKeys : Get(key)
    \/ \E key \in CacheKeys, value \in Values, ttl \in Ttls : Set(key, value, ttl)
    \/ \E key \in CacheKeys : CacheRemove(key)
    \/ Clear
    \/ Stats
    \/ Tick

(***************************************************************************)
(* Results of the provider calls (src/providers/mod.rs).                   *)
(***************************************************************************)
\* Result<Vec<FeedItem>>: Ok(items) or Err(kind of ProviderError).
ProviderOk(items) == [ok |-> TRUE, items |-> items, err |-> ""]

ProviderErr(e) == [ok |-> FALSE, items |-> <<>>, err |-> e]

\* No result yet: the call has not returned.
Pending == [ok |-> FALSE, items |-> <<>>, err |-> "pending"]

\* How one HTTP request can end: the response arrives and is read, send()
\* fails or times out, or the body fails or times out while it is read.
NetOutcomes == {"ok", "send_failed", "body_failed"}

Min(a, b) == IF a < b THEN a ELSE b

Max(a, b) == IF a < b THEN b ELSE a

\* Iterator::take(n) and Iterator::skip(n) on a Vec.
Take(s, n) == SubSeq(s, 1, Min(n, Len(s)))

Skip(s, n) == SubSeq(s, n + 1, Len(s))

(***************************************************************************)
(* Hacker News provider (src/providers/hackernews.rs).                     *)
(***************************************************************************)
\* Two of the six categories.
HnCategory == {"Top", "New"}

\* The ID list the server publishes for a category.
HnListing(cat) ==
    IF cat = "Top" THEN [i \in 1..HnTopLen |-> i]
    ELSE <<HnTopLen + 1, HnTopLen + 2>>

HnIds == 1..(HnTopLen + 2)

\* What GET item/<id>.json yields: an item (live, dead or deleted), the body
\* `null`, or a request that fails or times out.
HnItemKinds == {"live", "dead", "deleted", "null", "unreachable"}

\* The servers considered: the first two ids of the Top list vary, every
\* other id is a live item.
HnServers == {<<a, b>> : a \in HnItemKinds, b \in {"live", "dead"}}

kind_of(id) == IF id <= Len(hn_kind) THEN hn_kind[id] ELSE "live"

\* fetch_item, lines 202-213.
fetch_item(id) ==
    CASE kind_of(id) = "unreachable" -> [ok |-> FALSE, err |-> "Network"]
      [] kind_of(id) = "null" -> [ok |-> FALSE, err |-> "Other"]
      [] OTHER -> [ok |-> TRUE, id |-> id,
                   dead |-> kind_of(id) = "dead",
                   deleted |-> kind_of(id) = "deleted"]

\* Lines 304-312 and 190-195: of the results of one join_all, in the order of
\* the chunk, the Ok items that are neither deleted nor dead are pushed.
Pushed(res) == res.ok /\ ~(res.deleted \/ res.dead)

PushChunk(items, chunk) ==
    items \o SelectSeq(chunk, LAMBDA id : Pushed(fetch_item(id)))

fetch_items_batch_size == 10

fetch_items_by_ids_batch_size == 25

batch_size(op) ==
    IF op = "fetch_items" THEN fetch_items_batch_size
    ELSE fetch_items_by_ids_batch_size

\* One joined request for the whole list instead of ids.chunks(batch_size).
ChunkAll(s, pos, n) == SubSeq(s, pos, Len(s))

\* ids.chunks(batch_size): the chunk that starts at pos.
Chunk(s, pos, n) == SubSeq(s, pos, Min(pos + n - 1, Len(s)))

HnNoReq == [op |-> "none", offset |-> 0, limit |-> 0]

\* HackerNewsProvider::new, lines 91-103.
HnNew(cat, server) ==
    /\ hn_kind = server
    /\ category = cat
    /\ cached_ids = <<>>
    /\ hn_lock = "free"
    /\ hn_pc = "idle"
    /\ hn_req = HnNoReq
    /\ hn_ids = <<>>
    /\ hn_pos = 0
    /\ hn_inflight = 0
    /\ hn_items = <<>>
    /\ hn_ret = Pending
    /\ prev_category = "none"
    /\ cached_for = "none"

hnLocals == <<hn_ids, hn_pos, hn_inflight, hn_items>>

\* set_category without the clearing of lines 109-111.
ClearKeep(s) == s

\* Vec::clear, line 110.
Clear_ids(s) == <<>>

\* set_category, lines 106-112.
SetCategory(cat) ==
    /\ ProvIdle
    /\ provOps < MaxProvOps
    /\ category' = cat
    /\ prev_category' = category
    /\ cached_ids' = Clear_ids(cached_ids)
    /\ cached_for' = IF cached_ids' = <<>> THEN "none" ELSE cached_for
    /\ provOps' = provOps + 1
    /\ UNCHANGED <<hn_kind, hn_lock, hn_pc, hn_req, hnLocals, hn_ret>>
    /\ UNCHANGED <<comVars, regVars, cacheVars, spVars, sysVars>>

\* fetch_items, line 291: fetch_story_ids sends the list request.
HnFetchItemsStart(limit) ==
    /\ ProvIdle
    /\ provOps < MaxProvOps
    /\ hn_req' = [op |-> "fetch_items", offset |-> 0, limit |-> limit]
    /\ hn_pc' = "list_request"
    /\ hn_ret' = Pending
    /\ provOps' = provOps + 1
    /\ UNCHANGED <<prev_category, hn_kind, category, cached_ids, hn_lock, hnLocals, cached_for>>
    /\ UNCHANGED <<comVars, regVars, cacheVars, spVars, sysVars>>

\* fetch_story_ids, lines 118-131, and line 291: the list request ends.
HnStoryIdsResponse(outcome) ==
    /\ hn_pc = "list_request"
    /\ hn_req.op = "fetch_items"
    /\ IF outcome = "ok"
       THEN /\ cached_ids' = HnListing(category)
            /\ cached_for' = category
            /\ hn_ids' = Take(HnListing(category), hn_req.limit)
            /\ hn_pos' = 1
            /\ hn_items' = <<>>
            /\ hn_pc' = "loop"
            /\ UNCHANGED hn_ret
       ELSE /\ hn_ret' = ProviderErr(IF outcome = "send_failed" THEN "Network"
                                     ELSE "Parse")
            /\ hn_pc' = "done"
            /\ UNCHANGED <<cached_ids, cached_for, hn_ids, hn_pos, hn_items>>
    /\ UNCHANGED <<prev_category, hn_kind, category, hn_lock, hn_req, hn_inflight, provOps>>
    /\ UNCHANGED <<comVars, regVars, cacheVars, spVars, sysVars>>

\* fetch_items_with_offset, lines 135-156, up to its first await.  With a
\* cached list the guard is moved into the first arm and dropped after the
\* clone; otherwise `cached` lives to the end of the block, over the await.
HnOffsetStart(offset, limit) ==
    /\ ProvIdle
    /\ provOps < MaxProvOps
    /\ hn_lock = "free"
    /\ hn_req' = [op |-> "fetch_items_with_offset", offset |-> offset,
                  limit |-> limit]
    /\ provOps' = provOps + 1
    /\ IF cached_ids # <<>>
       THEN LET slice == Take(Skip(cached_ids, offset), limit)
            IN /\ hn_ids' = slice
               /\ hn_pos' = 1
               /\ hn_items' = <<>>
               /\ hn_ret' = IF slice = <<>> THEN ProviderOk(<<>>) ELSE Pending
               /\ hn_pc' = IF slice = <<>> THEN "done" ELSE "loop"
               /\ UNCHANGED hn_lock
       ELSE /\ hn_lock' = "held"
            /\ hn_pc' = "list_request"
            /\ hn_ret' = Pending
            /\ UNCHANGED <<hn_ids, hn_pos, hn_items>>
    /\ UNCHANGED <<prev_category, hn_kind, category, cached_ids, hn_inflight, cached_for>>
    /\ UNCHANGED <<comVars, regVars, cacheVars, spVars, sysVars>>

\* What Mutex::lock does when the calling thread already holds the mutex:
\* it never returns, or it panics.
RelockOutcomes == {"deadlocked", "panicked"}

\* fetch_all_story_ids, lines 159-176, called at line 141: the list request
\* ends; on success line 171 locks cached_ids.
HnAllStoryIdsResponse(outcome) ==
    /\ hn_pc = "list_request"
    /\ hn_req.op = "fetch_items_with_offset"
    /\ IF outcome # "ok"
       THEN /\ hn_ret' = ProviderErr(IF outcome = "send_failed" THEN "Network"
                                     ELSE "Parse")
            /\ hn_pc' = "done"
            /\ hn_lock' = "free"
            /\ UNCHANGED <<cached_ids, cached_for, hn_ids, hn_pos, hn_items>>
       ELSE IF hn_lock = "held"
       THEN /\ hn_pc' \in RelockOutcomes
            /\ UNCHANGED <<cached_ids, cached_for, hn_ids, hn_pos, hn_items,
                           hn_lock, hn_ret>>
       ELSE LET slice == Take(Skip(HnListing(category), hn_req.offset),
                              hn_req.limit)
            IN /\ cached_ids' = HnListing(category)
               /\ cached_for' = category
               /\ hn_ids' = slice
               /\ hn_pos' = 1
               /\ hn_items' = <<>>
               /\ hn_ret' = IF slice = <<>> THEN ProviderOk(<<>>) ELSE Pending
               /\ hn_pc' = IF slice = <<>> THEN "done" ELSE "loop"
               /\ UNCHANGED hn_lock
    /\ UNCHANGED <<prev_category, hn_kind, category, hn_req, hn_inflight, provOps>>
    /\ UNCHANGED <<comVars, regVars, cacheVars, spVars, sysVars>>

\* Lines 297-302 and 183-188: the futures of the next chunk are created and
\* join_all polls them: the requests of the chunk are in flight.
HnBatchIssue ==
    /\ hn_pc = "loop"
    /\ hn_pos <= Len(hn_ids)
    /\ hn_inflight' = Len(Chunk(hn_ids, hn_pos, batch_size(hn_req.op)))
    /\ hn_pc' = "join"
    /\ UNCHANGED <<prev_category, hn_kind, category, cached_ids, hn_lock, hn_req, hn_ids,
                   hn_pos, hn_items, hn_ret, provOps, cached_for>>
    /\ UNCHANGED <<comVars, regVars, cacheVars, spVars, sysVars>>

\* One request of the chunk ends; join_all keeps its result.
HnItemResponse ==
    /\ hn_pc = "join"
    /\ hn_inflight > 0
    /\ hn_inflight' = hn_inflight - 1
    /\ UNCHANGED <<prev_category, hn_kind, category, cached_ids, hn_lock, hn_pc, hn_req,
                   hn_ids, hn_pos, hn_items, hn_ret, provOps, cached_for>>
    /\ UNCHANGED <<comVars, regVars, cacheVars, spVars, sysVars>>

\* join_all resolves when every request of the chunk has ended; lines 304-312
\* and 190-195 push its items.
HnBatchJoin ==
    /\ hn_pc = "join"
    /\ hn_inflight = 0
    /\ hn_items' = PushChunk(hn_items,
                             Chunk(hn_ids, hn_pos, batch_size(hn_req.op)))
    /\ hn_pos' = hn_pos + batch_size(hn_req.op)
    /\ hn_pc' = "loop"
    /\ UNCHANGED <<prev_category, hn_kind, category, cached_ids, hn_lock, hn_req, hn_ids,
                   hn_inflight, hn_ret, provOps, cached_for>>
    /\ UNCHANGED <<comVars, regVars, cacheVars, spVars, sysVars>>

\* Lines 315 and 198: Ok(all_items).
HnLoopEnd ==
    /\ hn_pc = "loop"
    /\ hn_pos > Len(hn_ids)
    /\ hn_ret' = ProviderOk(hn_items)
    /\ hn_pc' = "done"
    /\ UNCHANGED <<prev_category, hn_kind, category, cached_ids, hn_lock, hn_req, hnLocals,
                   provOps, cached_for>>
    /\ UNCHANGED <<comVars, regVars, cacheVars, spVars, sysVars>>

\* The caller takes the result; the provider is free again.
HnReturn ==
    /\ hn_pc = "done"
    /\ hn_pc' = "idle"
    /\ hn_req' = HnNoReq
    /\ hn_ids' = <<>>
    /\ hn_pos' = 0
    /\ hn_items' = <<>>
    /\ hn_ret' = Pending
    /\ UNCHANGED <<prev_category, hn_kind, category, cached_ids, hn_lock, hn_inflight,
                   provOps, cached_for>>
    /\ UNCHANGED <<comVars, regVars, cacheVars, spVars, sysVars>>

HnLimits == {0, 1, 2, fetch_items_batch_size + 1, fetch_items_by_ids_batch_size + 1}

HnOffsets == {0, 1, HnTopLen}

NextHn ==
    \/ \E cat \in HnCategory : SetCategory(cat)
    \/ \E limit \in HnLimits : HnFetchItemsStart(limit)
    \/ \E outcome \in NetOutcomes : HnStoryIdsResponse(outcome)
    \/ \E offset \in HnOffsets, limit \in HnLimits : HnOffsetStart(offset, limit)
    \/ \E outcome \in NetOutcomes : HnAllStoryIdsResponse(outcome)
    \/ HnBatchIssue
    \/ HnItemResponse
    \/ HnBatchJoin
    \/ HnLoopEnd
    \/ HnReturn

(***************************************************************************)
(* crates.io, Finnhub, arXiv and Reddit providers (src/providers/          *)
(* cratesio.rs, finnhub.rs, arxiv.rs, reddit.rs).                          *)
(***************************************************************************)
SpNoReq == [provider |-> "none", op |-> "none", offset |-> 0, limit |-> 0]

SpReq(provider, op, offset, limit) ==
    [provider |-> provider, op |-> op, offset |-> offset, limit |-> limit]

\* The providers as constructed, no call in progress.
SimpleNew(key) ==
    /\ api_key = key
    /\ sp_pc = "idle"
    /\ sp_req = SpNoReq
    /\ sp_sent = 0
    /\ sp_subs = <<>>
    /\ sp_ret = Pending

\* A call starts: the request record, and what the call does up to its
\* first await.
SpStart(r, next_pc, sent, result) ==
    /\ ProvIdle
    /\ provOps < MaxProvOps
    /\ provOps' = provOps + 1
    /\ sp_req' = r
    /\ sp_pc' = next_pc
    /\ sp_sent' = sent
    /\ sp_ret' = result
    /\ UNCHANGED <<api_key, hnVars>>
    /\ UNCHANGED <<comVars, regVars, cacheVars, sysVars>>

\* The awaited request of a call ends and the call returns.
SpFinish(result) ==
    /\ sp_pc = "request"
    /\ sp_ret' = result
    /\ sp_pc' = "done"
    /\ UNCHANGED <<api_key, sp_req, sp_sent, sp_subs, provOps, hnVars>>
    /\ UNCHANGED <<comVars, regVars, cacheVars, sysVars>>

\* The listing a server publishes: its items, named by their positions.
ListingOf(n) == [i \in 1..n |-> i]

\* ---- crates.io ----
crates_max_per_page == 100

\* The server's answer to per_page and page (pages are 1-based).
CratesPage(per_page, page) ==
    LET first == (page - 1) * per_page + 1
        last == Min(page * per_page, CratesTotal)
    IN IF per_page = 0 \/ first > last THEN <<>>
       ELSE SubSeq(ListingOf(CratesTotal), first, last)

\* Lines 168 and 235.
per_page(limit) == Min(limit, crates_max_per_page)

\* Line 236.
page(offset, limit) == (offset \div per_page(limit)) + 1

\* fetch_items, lines 159-191, to the await of send().
CratesFetchItems(limit) ==
    /\ SpStart(SpReq("cratesio", "fetch_items", 0, limit), "request", 1, Pending)
    /\ UNCHANGED sp_subs

\* fetch_items_with_offset, lines 226-263, to the await of send(); line 236
\* divides by per_page.
CratesFetchItemsWithOffset(offset, limit) ==
    /\ IF per_page(limit) = 0
       THEN SpStart(SpReq("cratesio", "fetch_items_with_offset", offset, limit),
                    "panicked", 0, Pending)
       ELSE SpStart(SpReq("cratesio", "fetch_items_with_offset", offset, limit),
                    "request", 1, Pending)
    /\ UNCHANGED sp_subs

\* Lines 176-190 and 248-262.
CratesResult(r, outcome) ==
    CASE outcome = "send_failed" -> ProviderErr("Network")
      [] outcome = "body_failed" -> ProviderErr("Parse")
      [] OTHER ->
           ProviderOk(Take(CratesPage(per_page(r.limit),
                                      IF r.op = "fetch_items" THEN 1
                                      ELSE page(r.offset, r.limit)),
                           r.limit))

CratesResponse(outcome) ==
    /\ sp_req.provider = "cratesio"
    /\ SpFinish(CratesResult(sp_req, outcome))

\* ---- Finnhub ----
ApiKeys == {"", "k"}

\* status, lines 132-138.
FinnhubStatus(key) == IF key = "" THEN "NeedsConfig" ELSE "Ready"

\* A fetch_items without the check of lines 145-147.
FinnhubGuardNone(key) == FALSE

\* Line 145: self.api_key.is_empty().
FinnhubGuard(key) == key = ""

\* fetch_items, lines 144-156, to the await of send().
FinnhubFetchItems(limit) ==
    /\ IF FinnhubGuard(api_key)
       THEN SpStart(SpReq("finnhub", "fetch_items", 0, limit), "done", 0,
                    ProviderErr("NotConfigured"))
       ELSE SpStart(SpReq("finnhub", "fetch_items", 0, limit), "request", 1,
                    Pending)
    /\ UNCHANGED sp_subs

FinnhubOutcomes == NetOutcomes \cup {"401", "429"}

\* Lines 156-175.
FinnhubResult(r, outcome) ==
    CASE outcome = "send_failed" -> ProviderErr("Network")
      [] outcome = "401" -> ProviderErr("Auth")
      [] outcome = "429" -> ProviderErr("RateLimit")
      [] outcome = "body_failed" -> ProviderErr("Parse")
      [] OTHER -> ProviderOk(Take(ListingOf(FeedTotal), r.limit))

FinnhubResponse(outcome) ==
    /\ sp_req.provider = "finnhub"
    /\ SpFinish(FinnhubResult(sp_req, outcome))

\* ---- arXiv ----
\* fetch_items, lines 273-274, to the await inside fetch_feed.
ArxivFetchItems(limit) ==
    /\ SpStart(SpReq("arxiv", "fetch_items", 0, limit), "request", 1, Pending)
    /\ UNCHANGED sp_subs

\* fetch_feed, lines 117-130, and fetch_items, lines 274-283.
ArxivResult(r, outcome) ==
    IF outcome = "ok" THEN ProviderOk(Take(ListingOf(FeedTotal), r.limit))
    ELSE ProviderErr("Network")

ArxivResponse(outcome) ==
    /\ sp_req.provider = "arxiv"
    /\ SpFinish(ArxivResult(sp_req, outcome))

\* ---- Reddit ----
subreddits == <<"technology", "programming">>

\* The entries of the feed of each subreddit, newest first.
RedditFeed(i) ==
    IF i = 1
    THEN <<[provider_id |-> "reddit", id |-> 11, published_at |-> 4],
           [provider_id |-> "reddit", id |-> 12, published_at |-> 2]>>
    ELSE <<[provider_id |-> "reddit", id |-> 21, published_at |-> 3],
           [provider_id |-> "reddit", id |-> 22, published_at |-> 3]>>

reddit_min_items_per_sub == 10

\* Line 313.
items_per_sub(limit) ==
    Max(limit \div Len(subreddits), reddit_min_items_per_sub)

\* fetch_single_subreddit, lines 336-355: a failed fetch is an empty Vec.
fetch_single_subreddit(i, outcome, limit) ==
    IF outcome = "ok" THEN Take(RedditFeed(i), limit) ELSE <<>>

\* Iterator::flatten over the results of join_all, lines 323-326.
RECURSIVE Flatten(_)
Flatten(ss) == IF ss = <<>> THEN <<>> ELSE Head(ss) \o Flatten(Tail(ss))

\* A merge that keeps everything: no truncate.
TruncateNone(s, n) == s

\* Vec::truncate, line 330.
Truncate(s, n) == Take(s, n)

\* fetch_items, lines 475-477, and fetch_from_all_subreddits, lines 312-321:
\* one request per subreddit is in flight.
RedditFetchItems(limit) ==
    /\ SpStart(SpReq("reddit", "fetch_items", 0, limit), "request",
               Len(subreddits), Pending)
    /\ sp_subs' = [i \in 1..Len(subreddits) |-> "pending"]

\* The request of one subreddit ends.
RedditResponse(i, outcome) ==
    /\ sp_pc = "request"
    /\ sp_req.provider = "reddit"
    /\ i \in 1..Len(sp_subs)
    /\ sp_subs[i] = "pending"
    /\ sp_subs' = [sp_subs EXCEPT ![i] = outcome]
    /\ UNCHANGED <<api_key, sp_pc, sp_req, sp_sent, sp_ret, provOps, hnVars>>
    /\ UNCHANGED <<comVars, regVars, cacheVars, sysVars>>

\* Lines 321-332: join_all has every result; merge, sort, truncate.
RedditResult(r, subs) ==
    ProviderOk(Truncate(
        SortByPublished(Flatten(
            [i \in 1..Len(subs) |->
                fetch_single_subreddit(i, subs[i], items_per_sub(r.limit))])),
        r.limit))

RedditJoin ==
    /\ sp_req.provider = "reddit"
    /\ \A i \in 1..Len(sp_subs) : sp_subs[i] # "pending"
    /\ SpFinish(RedditResult(sp_req, sp_subs))

\* The caller takes the result.
SpReturn ==
    /\ sp_pc = "done"
    /\ sp_pc' = "idle"
    /\ sp_req' = SpNoReq
    /\ sp_sent' = 0
    /\ sp_subs' = <<>>
    /\ sp_ret' = Pending
    /\ UNCHANGED <<api_key, provOps, hnVars>>
    /\ UNCHANGED <<comVars, regVars, cacheVars, sysVars>>

ProvLimits == {0, 1, 2, FeedTotal + 2}

CratesLimits == {0, 1, 2, crates_max_per_page + 1}

CratesOffsets == {0, 1, 2, 3}

NextSimple ==
    \/ \E limit \in CratesLimits : CratesFetchItems(limit)
    \/ \E offset \in CratesOffsets, limit \in CratesLimits :
          CratesFetchItemsWithOffset(offset, limit)
    \/ \E outcome \in NetOutcomes : CratesResponse(outcome)
    \/ \E limit \in ProvLimits : FinnhubFetchItems(limit)
    \/ \E outcome \in FinnhubOutcomes : FinnhubResponse(outcome)
    \/ \E limit \in ProvLimits : ArxivFetchItems(limit)
    \/ \E outcome \in NetOutcomes : ArxivResponse(outcome)
    \/ \E limit \in ProvLimits : RedditFetchItems(limit)
    \/ \E i \in 1..Len(subreddits), outcome \in NetOutcomes :
          RedditResponse(i, outcome)
    \/ RedditJoin
    \/ SpReturn

(***************************************************************************)
(* Reddit comment trees (src/providers/reddit.rs, fetch_comments).         *)
(***************************************************************************)
\* The `children` array of the response and everything below it, as a
\* forest: node n hangs below node c_parent[n], or is an element of the
\* top-level array when c_parent[n] = 0; siblings are in the order of their
\* numbers.  A node is a complete comment ("t1"), an object of another kind
\* ("more"), or a t1 object that lacks id, author or body ("t1_partial").
NodeKinds == {"t1", "more", "t1_partial"}

Forests ==
    UNION {{p \in [1..n -> 0..(n - 1)] : \A i \in 1..n : p[i] < i} : n \in 0..MaxNodes}

MaxDepths == 0..MaxNodes

\* No comment request made yet.
CommentsNew ==
    /\ c_parent = <<>>
    /\ c_kind = <<>>
    /\ c_max_depth = 0
    /\ c_pc = "idle"
    /\ c_ret = Pending

\* v.get("children").as_array(): the nodes directly below n, in order.
Children(n) ==
    SelectSeq([i \in 1..Len(c_parent) |-> i], LAMBDA m : c_parent[m] = n)

\* Option::None of parse_reddit_comment.
NoComment == [id |-> 0, depth |-> 0, collapsed |-> FALSE, replies |-> <<>>]

\* Comment::new (models/feed_item.rs 99-111): depth 0, not collapsed, no
\* replies.
Comment_new(id) == [id |-> id, depth |-> 0, collapsed |-> FALSE, replies |-> <<>>]

\* Line 436: replies are parsed with depth + 1.
SameDepth(depth) == depth

child_depth(depth) == depth + 1

\* A parse that does not look at max_depth.
RECURSIVE parse_any_depth(_, _, _)
RECURSIVE FilterMapAny(_, _, _)
parse_any_depth(n, depth, max_depth) ==
    IF c_kind[n] # "t1" THEN NoComment
    ELSE [Comment_new(n) EXCEPT
            !.depth = depth,
            !.replies = FilterMapAny(Children(n), child_depth(depth), max_depth)]

FilterMapAny(nodes, depth, max_depth) ==
    IF nodes = <<>> THEN <<>>
    ELSE LET c == parse_any_depth(Head(nodes), depth, max_depth)
             rest == FilterMapAny(Tail(nodes), depth, max_depth)
         IN IF c = NoComment THEN rest ELSE <<c>> \o rest

\* parse_reddit_comment, lines 403-442, and the filter_map of lines 394-397
\* and 434-437.
RECURSIVE parse_reddit_comment(_, _, _)
RECURSIVE FilterMapComments(_, _, _)
parse_reddit_comment(n, depth, max_depth) ==
    IF depth > max_depth THEN NoComment
    ELSE IF c_kind[n] # "t1" THEN NoComment
    ELSE [Comment_new(n) EXCEPT
            !.depth = depth,
            !.replies = IF depth < max_depth
                        THEN FilterMapComments(Children(n), child_depth(depth),
                                               max_depth)
                        ELSE <<>>]

FilterMapComments(nodes, depth, max_depth) ==
    IF nodes = <<>> THEN <<>>
    ELSE LET c == parse_reddit_comment(Head(nodes), depth, max_depth)
             rest == FilterMapComments(Tail(nodes), depth, max_depth)
         IN IF c = NoComment THEN rest ELSE <<c>> \o rest

\* fetch_comments, lines 369-379: the request is sent.
FetchComments ==
    /\ c_pc = "idle"
    /\ c_pc' = "request"
    /\ UNCHANGED <<c_parent, c_kind, c_max_depth, c_ret>>
    /\ UNCHANGED <<regVars, cacheVars, hnVars, spVars, provOps, sysVars>>

\* Lines 376-399: the request ends; the body is parsed into the tree.
FetchCommentsResult(outcome, max_depth) ==
    CASE outcome \in {"send_failed", "body_failed"} -> ProviderErr("Network")
      [] outcome = "not_json" -> ProviderErr("Parse")
      [] OTHER -> ProviderOk(FilterMapComments(Children(0), 0, max_depth))

FetchCommentsResponse(outcome) ==
    /\ c_pc = "request"
    /\ c_ret' = FetchCommentsResult(outcome, c_max_depth)
    /\ c_pc' = "done"
    /\ UNCHANGED <<c_parent, c_kind, c_max_depth>>
    /\ UNCHANGED <<regVars, cacheVars, hnVars, spVars, provOps, sysVars>>

\* The caller takes the comments.
CommentsReturn ==
    /\ c_pc = "done"
    /\ c_pc' = "idle"
    /\ c_ret' = Pending
    /\ UNCHANGED <<c_parent, c_kind, c_max_depth>>
    /\ UNCHANGED <<regVars, cacheVars, hnVars, spVars, provOps, sysVars>>

NextComments ==
    \/ FetchComments
    \/ \E outcome \in NetOutcomes \cup {"not_json"} : FetchCommentsResponse(outcome)
    \/ CommentsReturn

(***************************************************************************)
(* CacheManager::new (src/cache/mod.rs 32-50) on a store directory that a  *)
(* previous run, or another process, has left behind.                      *)
(***************************************************************************)
\* Bytes in the store that are not the JSON of a CacheEntry of the requested
\* type: another payload type or an older schema.
Undecodable == [json |-> [other |-> TRUE], len |-> 2]

\* What an earlier run can have left under one key.
StoredBytes ==
    {NoEntry, Undecodable, to_vec(CacheEntry_new(<<"x">>, 2, 0)),
     to_vec(CacheEntry_new(<<"x">>, 0, 0))}

EmptyDb == [ks \in KeyStrs |-> NoEntry]

\* The store directory: sled::open succeeds on a healthy (or missing) one and
\* fails on a corrupted one and on one whose lock another process holds.
DiskConds == {"healthy", "corrupted", "locked"}

Disks == [cond : DiskConds, db : [KeyStrs -> StoredBytes]]

NotOpened == [kind |-> "pending", opens |-> 0, removed |-> "none"]

\* The cache of the other specifications: opened at once on an empty store.
StoreOpened ==
    /\ disk = [cond |-> "healthy", db |-> EmptyDb]
    /\ open_pc = "opened"
    /\ open_ret = [kind |-> "Ok", opens |-> 1, removed |-> "none"]

notStore == <<regVars, provVars, appVars>>

\* Lines 34-35: the first sled::open.
OpenFirst ==
    /\ open_pc = "new"
    /\ IF disk.cond = "healthy"
       THEN /\ db' = disk.db
            /\ stats' = CacheStats_default
            /\ open_pc' = "opened"
            /\ open_ret' = [open_ret EXCEPT !.kind = "Ok", !.opens = 1]
       ELSE /\ open_pc' = "remove"
            /\ open_ret' = [open_ret EXCEPT !.opens = 1]
            /\ UNCHANGED <<db, stats>>
    /\ UNCHANGED <<disk, max_size_bytes, now, creq, cret, cacheOps, writtenKeys,
                   expiredKeys, cevicted>>
    /\ UNCHANGED notStore

\* std::fs::remove_dir_all: the directory is gone, or the removal failed and
\* the directory is as it was.
RemoveOutcomes == {"removed", "failed"}

\* Line 39: let _ = std::fs::remove_dir_all(&cache_path); the result is
\* dropped.
RemoveDirAll(outcome) ==
    /\ open_pc = "remove"
    /\ disk' = IF outcome = "removed"
               THEN [cond |-> "healthy", db |-> EmptyDb]
               ELSE disk
    /\ open_pc' = "reopen"
    /\ open_ret' = [open_ret EXCEPT !.removed = outcome]
    /\ UNCHANGED cacheVars
    /\ UNCHANGED notStore

\* Line 41: sled::open(&cache_path)?, the second open.
OpenSecond ==
    /\ open_pc = "reopen"
    /\ IF disk.cond = "healthy"
       THEN /\ db' = disk.db
            /\ stats' = CacheStats_default
            /\ open_pc' = "opened"
            /\ open_ret' = [open_ret EXCEPT !.kind = "Ok", !.opens = 2]
       ELSE /\ open_pc' = "failed"
            /\ open_ret' = [open_ret EXCEPT !.kind = "Err", !.opens = 2]
            /\ UNCHANGED <<db, stats>>
    /\ UNCHANGED <<disk, max_size_bytes, now, creq, cret, cacheOps, writtenKeys,
                   expiredKeys, cevicted>>
    /\ UNCHANGED notStore

\* The process that holds the lock of the store lets it go.
LockReleased ==
    /\ open_pc \in {"new", "remove", "reopen"}
    /\ disk.cond = "locked"
    /\ disk' = [disk EXCEPT !.cond = "healthy"]
    /\ UNCHANGED <<open_pc, open_ret>>
    /\ UNCHANGED cacheVars
    /\ UNCHANGED notStore

NextStore ==
    \/ OpenFirst
    \/ \E outcome \in RemoveOutcomes : RemoveDirAll(outcome)
    \/ OpenSecond
    \/ LockReleased
    \/ open_pc = "opened" /\ \E key \in CacheKeys : Get(key)

(***************************************************************************)
(* The application (src/ui/app.rs): the views, the event loop of           *)
(* App::run and the handlers of the key events.                            *)
(***************************************************************************)
\* AppState, lines 38-51.
Landing == [view |-> "Landing", id |-> ""]

Dashboard == [view |-> "Dashboard", id |-> ""]

Feed(id) == [view |-> "Feed", id |-> id]

Article == [view |-> "Article", id |-> ""]

Comments == [view |-> "Comments", id |-> ""]

Help == [view |-> "Help", id |-> ""]

\* The ids of the registry App::new builds, in registration order
\* (lines 91-117).
AppProviders == <<"hackernews", "arxiv", "cratesio", "reddit", "finnhub">>

provider_count == Len(AppProviders)

\* registry.get(id), as the application uses it.
registry_get(id) == id \in Range(AppProviders)

\* FeedProvider::supports_offset: false by default (providers/mod.rs
\* 103-105), true for crates.io only (cratesio.rs 222-224).
supports_offset(id) == id = "cratesio"

\* A feed item, as far as the application looks at it: its provider and its
\* id.  Option<FeedItem>::None is NoItem.
FeedItem(p, n) == [provider_id |-> p, id |-> n]

NoItem == [provider_id |-> "", id |-> 0]

\* The back-references of item.metadata that load_comments_for_current_item
\* reads: reddit.rs 246-247 sets subreddit and reddit_id on every item,
\* hackernews.rs 227-231 leaves hn_id unset.
has_thread_id(item) == item.provider_id = "reddit"

\* The first n items of the feed of provider p.
FeedOf(p, n) == [i \in 1..n |-> FeedItem(p, i)]

\* What registry.fetch_from(id, limit) answers: items of that provider, or an
\* error.
FetchFromOutcomes(id) ==
    {ProviderOk(FeedOf(id, n)) : n \in 0..MaxFeed} \cup {ProviderErr("Network")}

RECURSIVE Merge(_, _)
Merge(counts, ps) ==
    IF ps = <<>> THEN <<>>
    ELSE FeedOf(Head(ps), counts[Head(ps)]) \o Merge(counts, Tail(ps))

\* What registry.fetch_all(limit) answers: the items of the providers that
\* answered, merged into one list; here up to MaxFeed items of three of the
\* providers.
AnsweringProviders == <<"hackernews", "cratesio", "reddit">>

FetchAllOutcomes ==
    {Merge(c, AnsweringProviders) :
        c \in {f \in [Range(AnsweringProviders) -> 0..MaxFeed] :
                  Len(Merge(f, AnsweringProviders)) <= MaxFeed}}

\* What fetch_items_with_offset answers to load_more_items: more items of the
\* provider, none, or an error; the default of the trait (providers/mod.rs
\* 98-100) is the error "Offset not supported".
LoadMoreOutcomes(id) ==
    IF id = "cratesio"
    THEN {ProviderOk(<<>>), ProviderErr("Network")}
         \cup {ProviderOk(<<FeedItem(id, n)>>) : n \in 1..MaxFeed}
    ELSE {ProviderErr("Offset not supported")}

\* The key events: an action of map_key_event or, without one, the character
\* typed (a digit, 'a', or anything else).
Actions ==
    {"Quit", "Help", "Back", "NavigateUp", "NavigateDown", "GoToTop",
     "GoToBottom", "Select", "Refresh", "NextArticle", "PrevArticle",
     "ViewComments", "ScrollDown"}

Keys ==
    {[action |-> a, ch |-> ""] : a \in Actions}
    \cup {[action |-> "None", ch |-> c] : c \in {"1", "3", "9", "a", "z"}}

to_digit(c) == CASE c = "1" -> 1 [] c = "3" -> 3 [] c = "9" -> 9 [] OTHER -> 0

saturating_sub(a, b) == IF a >= b THEN a - b ELSE 0

\* items.len().saturating_sub(1): the index of the last item.
last_index_len(n) == n

last_index(n) == saturating_sub(n, 1)

\* items.get(idx).cloned().
items_get(items, idx) == IF idx < Len(items) THEN items[idx + 1] ELSE NoItem

NoCall == [op |-> "none", id |-> ""]

NoResult == [op |-> "none", ok |-> FALSE]

\* App::new, lines 124-145.
AppNew ==
    /\ state = Landing
    /\ should_quit = FALSE
    /\ app_items = <<>>
    /\ selected_idx = 0
    /\ current_item = NoItem
    /\ landing_selected = 0
    /\ comments = <<>>
    /\ comments_loading = FALSE
    /\ loading = FALSE
    /\ app_pc = "top"
    /\ app_req = NoCall
    /\ app_res = NoResult
    /\ opened_from = Landing
    /\ comment_loads = 0

notApp == <<regVars, cacheVars, provVars, storeVars>>

\* run, lines 166-168: the loop ends once should_quit is set.
AfterKey(quit) == IF quit THEN "done" ELSE "top"

\* A handler that awaits nothing: what it leaves of the fetch state.
NoFetch ==
    /\ app_res' = NoResult
    /\ UNCHANGED <<loading, app_req>>

\* fetch_all_items up to its await, lines 418-424.
FetchAllItemsStart ==
    /\ loading' = TRUE
    /\ app_req' = [op |-> "fetch_all", id |-> ""]
    /\ app_pc' = "await"
    /\ app_res' = NoResult
    /\ UNCHANGED <<app_items, selected_idx>>

\* fetch_provider_items up to its await, lines 480-484.
FetchProviderItemsStart(id) ==
    /\ loading' = TRUE
    /\ app_req' = [op |-> "fetch_from", id |-> id]
    /\ app_pc' = "await"
    /\ app_res' = NoResult
    /\ UNCHANGED <<app_items, selected_idx>>

\* select_from_landing, lines 397-415, with landing_selected = sel.
select_from_landing(sel) ==
    /\ landing_selected' = sel
    /\ IF sel >= provider_count
       THEN /\ state' = Dashboard
            /\ FetchAllItemsStart
       ELSE /\ state' = Feed(AppProviders[sel + 1])
            /\ FetchProviderItemsStart(AppProviders[sel + 1])

\* handle_landing_input, lines 193-232.
HandleLandingInput(key) ==
    /\ app_pc = "poll"
    /\ state = Landing
    /\ CASE key.action = "Select" -> select_from_landing(landing_selected)
         [] key.action = "None" /\ to_digit(key.ch) >= 1
                /\ to_digit(key.ch) <= provider_count ->
              select_from_landing(to_digit(key.ch) - 1)
         [] key.action = "None" /\ key.ch = "a" ->
              select_from_landing(provider_count)
         [] OTHER ->
              /\ state' = IF key.action = "Help" THEN Help ELSE state
              /\ landing_selected' =
                    CASE key.action = "NavigateUp" /\ landing_selected > 0 ->
                           landing_selected - 1
                      [] key.action = "NavigateDown"
                             /\ landing_selected < provider_count ->
                           landing_selected + 1
                      [] OTHER -> landing_selected
              /\ app_pc' = AfterKey(key.action = "Quit")
              /\ NoFetch
              /\ UNCHANGED <<app_items, selected_idx>>
    /\ should_quit' = (key.action = "Quit")
    /\ UNCHANGED <<current_item, comments, comments_loading, opened_from,
                   comment_loads>>
    /\ UNCHANGED notApp

\* load_more_items, lines 434-477, up to its await or, when it awaits
\* nothing, to its end.
load_more_items ==
    IF loading
    THEN /\ app_pc' = "top"
         /\ app_res' = NoResult
         /\ UNCHANGED <<loading, app_req>>
    ELSE IF state.view = "Feed" /\ registry_get(state.id)
               /\ supports_offset(state.id)
    THEN /\ loading' = TRUE
         /\ app_req' = [op |-> "load_more", id |-> state.id]
         /\ app_pc' = "await"
         /\ app_res' = NoResult
    ELSE /\ loading' = FALSE
         /\ app_pc' = "top"
         /\ app_res' = [op |-> "load_more", ok |-> FALSE]
         /\ UNCHANGED app_req

\* refresh_current_feed, lines 504-516.
refresh_current_feed ==
    IF state = Dashboard THEN FetchAllItemsStart
    ELSE FetchProviderItemsStart(state.id)

\* handle_feed_input, lines 235-286.
HandleFeedInput(key) ==
    /\ app_pc = "poll"
    /\ state.view \in {"Dashboard", "Feed"}
    /\ CASE key.action = "Refresh" ->
              /\ refresh_current_feed
              /\ UNCHANGED <<state, current_item, opened_from>>
         [] key.action = "NavigateDown"
                /\ ~(selected_idx < last_index(Len(app_items)))
                /\ ~loading /\ app_items # <<>> ->
              /\ load_more_items
              /\ UNCHANGED <<state, app_items, selected_idx, current_item,
                             opened_from>>
         [] key.action = "Back" ->
              /\ state' = Landing
              /\ app_items' = <<>>
              /\ selected_idx' = 0
              /\ app_pc' = "top"
              /\ NoFetch
              /\ UNCHANGED <<current_item, opened_from>>
         [] key.action = "Select" /\ selected_idx < Len(app_items) ->
              /\ current_item' = app_items[selected_idx + 1]
              /\ state' = Article
              /\ opened_from' = state
              /\ app_pc' = "top"
              /\ NoFetch
              /\ UNCHANGED <<app_items, selected_idx>>
         [] OTHER ->
              /\ state' = IF key.action = "Help" THEN Help ELSE state
              /\ selected_idx' =
                    CASE key.action = "NavigateUp" /\ selected_idx > 0 ->
                           selected_idx - 1
                      [] key.action = "NavigateDown"
                             /\ selected_idx < last_index(Len(app_items)) ->
                           selected_idx + 1
                      [] key.action = "GoToTop" -> 0
                      [] key.action = "GoToBottom" ->
                           last_index(Len(app_items))
                      [] OTHER -> selected_idx
              /\ app_pc' = AfterKey(key.action = "Quit")
              /\ NoFetch
              /\ UNCHANGED <<app_items, current_item, opened_from>>
    /\ should_quit' = (key.action = "Quit")
    /\ UNCHANGED <<landing_selected, comments, comments_loading, comment_loads>>
    /\ UNCHANGED notApp

\* fetch_all_items after its await, lines 424-430.
FetchAllItemsComplete(items) ==
    /\ app_pc = "await"
    /\ app_req.op = "fetch_all"
    /\ app_items' = items
    /\ selected_idx' = 0
    /\ loading' = FALSE
    /\ app_res' = [op |-> "fetch_all", ok |-> TRUE]
    /\ app_req' = NoCall
    /\ app_pc' = "top"
    /\ UNCHANGED <<state, should_quit, current_item, landing_selected, comments,
                   comments_loading, opened_from, comment_loads>>
    /\ UNCHANGED notApp

\* fetch_provider_items after its await, lines 484-500: loading is reset
\* after the match, whatever the result.
LoadingKeptOnError(res) == ~res.ok

LoadingAfterFetch(res) == FALSE

FetchProviderItemsComplete(res) ==
    /\ app_pc = "await"
    /\ app_req.op = "fetch_from"
    /\ IF res.ok
       THEN /\ app_items' = res.items
            /\ selected_idx' = 0
       ELSE UNCHANGED <<app_items, selected_idx>>
    /\ loading' = LoadingAfterFetch(res)
    /\ app_res' = [op |-> "fetch_from", ok |-> res.ok]
    /\ app_req' = NoCall
    /\ app_pc' = "top"
    /\ UNCHANGED <<state, should_quit, current_item, landing_selected, comments,
                   comments_loading, opened_from, comment_loads>>
    /\ UNCHANGED notApp

\* load_more_items after its await, lines 451-476: items.extend(new_items).
ExtendFront(items, new_items) == new_items \o items

Extend(items, new_items) == items \o new_items

LoadMoreItemsComplete(res) ==
    /\ app_pc = "await"
    /\ app_req.op = "load_more"
    /\ Len(app_items) + Len(res.items) <= MaxAppItems
    /\ app_items' = IF res.ok /\ res.items # <<>>
                    THEN Extend(app_items, res.items)
                    ELSE app_items
    /\ loading' = FALSE
    /\ app_res' = [op |-> "load_more", ok |-> res.ok]
    /\ app_req' = NoCall
    /\ app_pc' = "top"
    /\ UNCHANGED <<state, should_quit, selected_idx, current_item,
                   landing_selected, comments, comments_loading, opened_from,
                   comment_loads>>
    /\ UNCHANGED notApp

\* handle_article_input, lines 325-331: NextArticle moves on unless the last
\* item is open.
has_next_always(idx, n) == TRUE

has_next(idx, n) == idx < last_index(n)

\* handle_article_input, lines 292-306: Back.
BackFromArticle ==
    IF current_item # NoItem THEN Feed(current_item.provider_id) ELSE Dashboard

\* handle_article_input, lines 289-349.
HandleArticleInput(key) ==
    /\ app_pc = "poll"
    /\ state = Article
    /\ CASE key.action = "Back" ->
              /\ state' = BackFromArticle
              /\ current_item' = NoItem
              /\ opened_from' = Landing
              /\ UNCHANGED <<selected_idx, comments_loading, comment_loads>>
         [] key.action = "NextArticle" /\ has_next(selected_idx, Len(app_items)) ->
              /\ selected_idx' = selected_idx + 1
              /\ current_item' = items_get(app_items, selected_idx + 1)
              /\ UNCHANGED <<state, comments_loading, comment_loads, opened_from>>
         [] key.action = "PrevArticle" /\ selected_idx > 0 ->
              /\ selected_idx' = selected_idx - 1
              /\ current_item' = items_get(app_items, selected_idx - 1)
              /\ UNCHANGED <<state, comments_loading, comment_loads, opened_from>>
         [] key.action = "ViewComments" /\ current_item # NoItem ->
              /\ state' = Comments
              /\ comments_loading' = TRUE
              /\ comment_loads' = 0
              /\ UNCHANGED <<selected_idx, current_item, opened_from>>
         [] OTHER ->
              UNCHANGED <<state, selected_idx, current_item, comments_loading,
                          comment_loads, opened_from>>
    /\ should_quit' = (key.action = "Quit")
    /\ app_pc' = AfterKey(key.action = "Quit")
    /\ NoFetch
    /\ UNCHANGED <<app_items, landing_selected, comments>>
    /\ UNCHANGED notApp

\* handle_comments_input, lines 352-383.
HandleCommentsInput(key) ==
    /\ app_pc = "poll"
    /\ state = Comments
    /\ IF key.action = "Back"
       THEN /\ state' = Article
            /\ comments' = <<>>
            /\ comment_loads' = 0
       ELSE UNCHANGED <<state, comments, comment_loads>>
    /\ should_quit' = (key.action = "Quit")
    /\ app_pc' = AfterKey(key.action = "Quit")
    /\ NoFetch
    /\ UNCHANGED <<app_items, selected_idx, current_item, landing_selected,
                   comments_loading, opened_from>>
    /\ UNCHANGED notApp

\* handle_help_input, lines 386-394.
HandleHelpInput(key) ==
    /\ app_pc = "poll"
    /\ state = Help
    /\ state' = IF key.action \in {"Back", "Help"} THEN Landing ELSE state
    /\ should_quit' = (key.action = "Quit")
    /\ app_pc' = AfterKey(key.action = "Quit")
    /\ NoFetch
    /\ UNCHANGED <<app_items, selected_idx, current_item, landing_selected,
                   comments, comments_loading, opened_from, comment_loads>>
    /\ UNCHANGED notApp

\* run, lines 155-158: the comments of the open article are loaded when the
\* Comments view waits for them.
NeedsComments ==
    state = Comments /\ comments_loading /\ comments = <<>>

\* What fetch_comments answers: a comment tree, an empty one, or an error.
FetchCommentsOutcomes ==
    {ProviderOk(<<>>), ProviderOk(<<1>>), ProviderErr("Network")}

\* load_comments_for_current_item, lines 529-572: the sources with a comment
\* thread, when the item carries the id of its thread.
fetches_comments(item) ==
    /\ item.provider_id \in {"hackernews", "reddit"}
    /\ has_thread_id(item)

\* load_comments_for_current_item up to its await or, when it awaits
\* nothing, to its end (lines 519-576).
LoadCommentsStart ==
    /\ app_pc = "top"
    /\ NeedsComments
    /\ IF current_item = NoItem
       THEN /\ app_pc' = "poll"
            /\ UNCHANGED <<comments, comments_loading, app_req, comment_loads>>
       ELSE /\ comments' = <<>>
            /\ comment_loads' = Min(comment_loads + 1, MaxLoads)
            /\ IF fetches_comments(current_item)
               THEN /\ comments_loading' = TRUE
                    /\ app_req' = [op |-> "fetch_comments",
                                   id |-> current_item.provider_id]
                    /\ app_pc' = "await"
               ELSE /\ comments_loading' = FALSE
                    /\ app_pc' = "poll"
                    /\ UNCHANGED app_req
    /\ app_res' = NoResult
    /\ UNCHANGED <<state, should_quit, app_items, selected_idx, current_item,
                   landing_selected, loading, opened_from>>
    /\ UNCHANGED notApp

\* load_comments_for_current_item after its await, lines 535-575:
\* comments_loading is reset after the match, whatever the result.
CommentsLoadingKeptOnError(res) == ~res.ok

CommentsLoadingAfter(res) == FALSE

LoadCommentsComplete(res) ==
    /\ app_pc = "await"
    /\ app_req.op = "fetch_comments"
    /\ comments' = IF res.ok THEN res.items ELSE comments
    /\ comments_loading' = CommentsLoadingAfter(res)
    /\ app_res' = [op |-> "fetch_comments", ok |-> res.ok]
    /\ app_req' = NoCall
    /\ app_pc' = "poll"
    /\ UNCHANGED <<state, should_quit, app_items, selected_idx, current_item,
                   landing_selected, loading, opened_from, comment_loads>>
    /\ UNCHANGED notApp

\* run, lines 155-161: nothing to load, the loop goes on to poll.
LoopPoll ==
    /\ app_pc = "top"
    /\ ~NeedsComments
    /\ app_pc' = "poll"
    /\ app_res' = NoResult
    /\ UNCHANGED <<state, should_quit, app_items, selected_idx, current_item,
                   landing_selected, comments, comments_loading, loading,
                   app_req, opened_from, comment_loads>>
    /\ UNCHANGED notApp

\* run, lines 161-165: the poll times out, or the event is not a key.
PollNoKey ==
    /\ app_pc = "poll"
    /\ app_pc' = "top"
    /\ UNCHANGED <<state, should_quit, app_items, selected_idx, current_item,
                   landing_selected, comments, comments_loading, loading,
                   app_req, app_res, opened_from, comment_loads>>
    /\ UNCHANGED notApp

NextApp ==
    \/ \E key \in Keys : HandleLandingInput(key)
    \/ \E key \in Keys : HandleFeedInput(key)
    \/ \E key \in Keys : HandleArticleInput(key)
    \/ \E key \in Keys : HandleCommentsInput(key)
    \/ \E key \in Keys : HandleHelpInput(key)
    \/ \E items \in FetchAllOutcomes : FetchAllItemsComplete(items)
    \/ \E res \in FetchFromOutcomes(app_req.id) : FetchProviderItemsComplete(res)
    \/ \E res \in LoadMoreOutcomes(app_req.id) : LoadMoreItemsComplete(res)
    \/ LoadCommentsStart
    \/ \E res \in FetchCommentsOutcomes : LoadCommentsComplete(res)
    \/ LoopPoll
    \/ PollNoKey

\* A registry as App::new and later register / remove calls leave it: the ids
\* of order are distinct and are exactly the keys of providers.
Registries ==
    {r \in [order : {s \in SeqsUpTo(ProviderIds, Cardinality(ProviderIds)) : NoDup(s)},
            gen : [ProviderIds -> {1}],
            status : [ProviderIds -> ProviderStatus]] : TRUE}

\* The providers before any call: HackerNewsProvider::new(None).
ProvidersNew ==
    /\ HnNew("Top", <<"live", "live">>)
    /\ SimpleNew("")
    /\ provOps = 0
    /\ CommentsNew
    /\ AppNew
    /\ StoreOpened

Init ==
    \E mb \in 1..MaxSizeMb :
        /\ RegistryIs(<<>>, [id \in ProviderIds |-> NoProvider])
        /\ CacheNew(mb)
        /\ ProvidersNew

Next == NextRegistry \/ NextFetch \/ NextCache

Spec == Init /\ [][Next]_vars

\* The registry operations, from ProviderRegistry::new().
InitRegistry ==
    /\ RegistryIs(<<>>, [id \in ProviderIds |-> NoProvider])
    /\ CacheNew(1)
    /\ ProvidersNew

SpecRegistry == InitRegistry /\ [][NextRegistry]_vars

\* The fetches, from every registry of Registries.
InitFetch ==
    \E r \in Registries :
        /\ RegistryIs(r.order,
                      [id \in ProviderIds |->
                         IF id \in Range(r.order)
                         THEN [id |-> id, gen |-> r.gen[id], status |-> r.status[id]]
                         ELSE NoProvider])
        /\ CacheNew(1)
        /\ ProvidersNew

SpecFetch == InitFetch /\ [][NextFetch]_vars

\* The cache operations, from CacheManager::new.
InitCache == Init

SpecCache == InitCache /\ [][NextCache]_vars

\* The provider calls, from freshly built providers and every server.
InitProviders ==
    \E cat \in HnCategory, server \in HnServers, key \in ApiKeys :
        /\ RegistryIs(<<>>, [id \in ProviderIds |-> NoProvider])
        /\ CacheNew(1)
        /\ HnNew(cat, server)
        /\ SimpleNew(key)
        /\ provOps = 0
        /\ CommentsNew
        /\ AppNew
        /\ StoreOpened

NextProviders == NextHn \/ NextSimple

SpecProviders == InitProviders /\ [][NextProviders]_vars

\* fetch_comments, on every response of up to MaxNodes nodes and every
\* max_depth.
InitComments ==
    \E p \in Forests, d \in MaxDepths :
        \E k \in [1..Len(p) -> NodeKinds] :
            /\ RegistryIs(<<>>, [id \in ProviderIds |-> NoProvider])
            /\ CacheNew(1)
            /\ HnNew("Top", <<"live", "live">>)
            /\ SimpleNew("")
            /\ provOps = 0
            /\ c_parent = p
            /\ c_kind = k
            /\ c_max_depth = d
            /\ c_pc = "idle"
            /\ c_ret = Pending
            /\ AppNew
            /\ StoreOpened

SpecComments == InitComments /\ [][NextComments]_vars

\* The application, from App::new.
InitApp ==
    /\ RegistryIs(<<>>, [id \in ProviderIds |-> NoProvider])
    /\ CacheNew(1)
    /\ ProvidersNew

SpecApp == InitApp /\ [][NextApp]_vars

\* CacheManager::new on every store directory, and the reads that follow.
InitStore ==
    \E d \in Disks :
        /\ RegistryIs(<<>>, [id \in ProviderIds |-> NoProvider])
        /\ CacheNew(1)
        /\ HnNew("Top", <<"live", "live">>)
        /\ SimpleNew("")
        /\ provOps = 0
        /\ CommentsNew
        /\ AppNew
        /\ disk = d
        /\ open_pc = "new"
        /\ open_ret = NotOpened

SpecStore == InitStore /\ [][NextStore]_vars

(***************************************************************************)
(* Properties of the registry and of the aggregation.                      *)
(***************************************************************************)
Registered == {id \in ProviderIds : contains_key(providers, id)}

IsRegistered(id) == id \in Registered

\* The items of the successful answers, in the order the calls completed.
RECURSIVE ConcatOk(_)
ConcatOk(cs) ==
    IF cs = <<>> THEN <<>>
    ELSE IF Head(cs).ev = "complete" /\ Head(cs).res.ok
         THEN Head(cs).res.items \o ConcatOk(Tail(cs))
         ELSE ConcatOk(Tail(cs))

IssuedIds(cs) == IdsOf([i \in 1..Len(SelectSeq(cs, LAMBDA e : e.ev = "issue")) |->
                          SelectSeq(cs, LAMBDA e : e.ev = "issue")[i].p])

\* C1: fetch_all returns a list whatever the providers answer: it holds
\* exactly the items of the providers that answered Ok, a failing provider
\* adds nothing, and every ready provider is called, also after a failure.
C1_PartialFailure ==
    pc = "fa_done" =>
        /\ ret.kind = "items"
        /\ Len(ret.items) = Len(ConcatOk(calls))
        /\ Range(ret.items) = Range(ConcatOk(calls))
        /\ Len(IssuedIds(calls)) = Cardinality({id \in Registered :
                                                  providers[id].status = "Ready"})
        /\ Range(IssuedIds(calls)) = {id \in Registered :
                                        providers[id].status = "Ready"}
        /\ \A i \in 1..Len(calls) :
              calls[i].ev = "issue" =>
                  /\ i < Len(calls)
                  /\ calls[i + 1].ev = "complete"
                  /\ calls[i + 1].p = calls[i].p

C1_Witness ==
    /\ pc = "fa_done"
    /\ \E i, j, k \in 1..Len(calls) :
          /\ i < j /\ j < k
          /\ calls[i].ev = "complete" /\ calls[i].res.ok /\ calls[i].res.items # <<>>
          /\ calls[j].ev = "complete" /\ ~calls[j].res.ok
          /\ calls[k].ev = "complete" /\ calls[k].res.ok /\ calls[k].res.items # <<>>
    /\ Len(ret.items) >= 2

\* C2: with two or more ready providers, fetch_all has issued the call to a
\* later provider before the call to an earlier provider completed.
C2_ConcurrentFanOut ==
    (pc = "fa_done" /\ Len(fa_providers) >= 2) =>
        \E i, j \in 1..Len(calls) :
            /\ i < j
            /\ calls[i].ev = "issue"
            /\ calls[j].ev = "complete"
            /\ calls[i].p # calls[j].p
            /\ IndexOf(fa_providers, calls[j].p) < IndexOf(fa_providers, calls[i].p)

\* Place of an item in the concatenation: provider in registration order,
\* then the position in that provider's answer.
ConcatBefore(a, b) ==
    \/ IndexOf(order, a.provider_id) < IndexOf(order, b.provider_id)
    \/ a.provider_id = b.provider_id /\ a.id < b.id

\* C3: the list fetch_all returns is sorted by published_at descending, and
\* items with equal published_at keep the order of the concatenation.
C3_SortedStable ==
    pc = "fa_done" =>
        \A i, j \in 1..Len(ret.items) :
            i < j =>
                /\ ret.items[i].published_at >= ret.items[j].published_at
                /\ ret.items[i].published_at = ret.items[j].published_at
                      => ConcatBefore(ret.items[i], ret.items[j])

C3_Witness ==
    /\ pc = "fa_done"
    /\ ret.items # all_items
    /\ \E i, j \in 1..Len(ret.items) :
          /\ i < j
          /\ ret.items[i].published_at = ret.items[j].published_at
          /\ ret.items[i].provider_id # ret.items[j].provider_id
    /\ \E i, j \in 1..Len(ret.items) :
          /\ i < j
          /\ ret.items[i].published_at = ret.items[j].published_at
          /\ ret.items[i].provider_id = ret.items[j].provider_id

PosIn(s, x) == IndexOf(s, x)

AllIds == IdsOf(All(order, providers))

\* C4 as stated: all() lists the registered providers in the order in which
\* their ids were first registered.
C4_FirstRegistrationOrder ==
    AllIds = SelectSeq(firstOrder, IsRegistered)

\* all() follows addOrder, and is the same with every status set to Ready.
C4_OrderInv ==
    \A a \in {AllIds} :
    \A ready \in {[id \in ProviderIds |->
                     IF contains_key(providers, id)
                     THEN [providers[id] EXCEPT !.status = "Ready"]
                     ELSE NoProvider]} :
        /\ a = SelectSeq(addOrder, LAMBDA id : contains_key(providers, id))
        /\ a = IdsOf(All(order, ready))

\* The ids two sequences share come in the same order in both.
SameRelativeOrder(a, b) ==
    SelectSeq(a, LAMBDA x : x \in Range(b)) = SelectSeq(b, LAMBDA x : x \in Range(a))

\* C4 as amended: all() lists the registered providers in the order of each
\* id's latest registration made while the id was absent (an id that is
\* removed and registered again goes to the end); no step changes the
\* relative order of two ids that stay registered, and the order is the
\* same whatever the providers' status.
C4_RegistrationOrder ==
    [][/\ C4_OrderInv'
       /\ \A a \in {AllIds} : \A b \in {AllIds'} : SameRelativeOrder(a, b)]_vars

C4_Witness ==
    /\ Len(order) = 3
    /\ req.op = "register"
    /\ AllIds # SelectSeq(firstOrder, IsRegistered)
    /\ \E id \in Registered : providers[id].status = "Disabled"

IsRegisterStep ==
    /\ regOps' = regOps + 1
    /\ req'.op \in {"register", "register_arc"}

\* C5: registering an id that is already registered replaces the stored
\* instance and leaves the order sequence, the id's position and the
\* provider count unchanged.
C5_ReRegisterKeepsPosition ==
    [][(IsRegisterStep /\ contains_key(providers, req'.p.id)) =>
          /\ get(providers', req'.p.id) = req'.p
          /\ order' = order
          /\ ids(order') = ids(order)
          /\ PosIn(order', req'.p.id) = PosIn(order, req'.p.id)
          /\ len(providers') = len(providers)
          /\ Len(All(order', providers')) = Len(All(order, providers))]_vars

C5_Witness ==
    /\ req.op \in {"register", "register_arc"}
    /\ req.was_present
    /\ Len(order) >= 2
    /\ order[1] = req.p.id
    /\ get(providers, req.p.id) = req.p
    /\ req.p.gen = 2

\* C6: ready() is the providers of all() whose status is Ready, in the
\* order of all(); fetch_all calls fetch_items on these and on no other.
C6_ReadyFilter ==
    LET R == Ready(order, providers)
        A == All(order, providers)
    IN /\ \A i \in 1..Len(R) : R[i].status = "Ready" /\ R[i] \in Range(A)
       /\ \A i \in 1..Len(A) :
             A[i].status = "Ready" <=> A[i] \in Range(R)
       /\ \A i, j \in 1..Len(R) : i < j => PosIn(A, R[i]) < PosIn(A, R[j])
       /\ req.op = "fetch_all" =>
             \A i \in 1..Len(calls) :
                 /\ calls[i].p.status = "Ready"
                 /\ calls[i].p \in Range(A)
       /\ pc = "fa_done" =>
             SelectSeq(IdsOf(A), LAMBDA id : providers[id].status = "Ready")
                 = IssuedIds(calls)

C6_Witness ==
    /\ pc = "fa_done"
    /\ Len(order) = 3
    /\ providers[order[1]].status = "NeedsConfig"
    /\ providers[order[2]].status = "Ready"
    /\ providers[order[3]].status = "Error"
    /\ Len(calls) = 2

\* C7: fetch_from on an id that is not registered returns an error and
\* calls no provider; on a registered id it returns what that provider's
\* fetch_items(limit) returned, error included, and calls no other provider.
C7_FetchFrom ==
    /\ req.op = "fetch_from" =>
          \A i \in 1..Len(calls) :
              /\ IsRegistered(req.id)
              /\ calls[i].p = providers[req.id]
    /\ pc = "ff_done" =>
          IF ~IsRegistered(req.id)
          THEN /\ ~ret.res.ok
               /\ ret.res.err = "NotConfigured"
               /\ calls = <<>>
          ELSE /\ Len(calls) = 2
               /\ calls[1] = [ev |-> "issue", p |-> providers[req.id],
                              limit |-> req.limit]
               /\ calls[2].ev = "complete"
               /\ ret.res = calls[2].res

C7_Witness ==
    /\ pc = "ff_done"
    /\ IsRegistered(req.id)
    /\ providers[req.id].status = "Disabled"
    /\ Len(order) = 3
    /\ ~ret.res.ok
    /\ ret.res.err = "Network"

C7_WitnessUnknownId ==
    /\ pc = "ff_done"
    /\ ~IsRegistered(req.id)
    /\ Len(order) = 2

(***************************************************************************)
(* Properties of the cache.                                                *)
(***************************************************************************)
IsGetStep == cacheOps' = cacheOps + 1 /\ creq'.op = "get"

\* Whole seconds from cached_at to now.
SecondsSince(entry) == (now - entry.cached_at) \div TicksPerSec

\* C8: a get on a stored entry whose TTL has elapsed returns Expired and
\* deletes the entry; the next get of the key, with no set of it in between,
\* returns NotFound; a get of a key that was never written returns NotFound.
C8_ExpiredThenNotFound ==
    [][IsGetStep =>
          LET ks == as_cache_key(creq'.key)
          IN /\ (/\ db[ks] # NoEntry
                 /\ SecondsSince(from_slice(db[ks]))
                       >= from_slice(db[ks]).ttl_seconds)
                    => (cret' = Err("Expired") /\ db'[ks] = NoEntry)
             /\ ks \in expiredKeys => cret' = Err("NotFound")
             /\ ks \notin writtenKeys => cret' = Err("NotFound")]_vars

C8_Witness ==
    /\ creq.op = "get"
    /\ cret = Err("NotFound")
    /\ as_cache_key(creq.key) \in expiredKeys
    /\ now >= TicksPerSec
    /\ stats.misses = 2

\* C9: a stored entry is valid exactly when the whole number of seconds
\* since cached_at is less than ttl_seconds.
C9_ValidIffWithinTtl ==
    \A ks \in KeyStrs :
        db[ks] # NoEntry =>
            LET entry == from_slice(db[ks])
            IN is_valid(entry, now) <=> SecondsSince(entry) < entry.ttl_seconds

\* C10: a get of a key issued right after a set of that key with
\* ttl_seconds >= 1, no time passing in between, returns the value set.
C10_GetAfterSet ==
    [][(/\ IsGetStep
        /\ creq.op = "set"
        /\ creq.ttl_seconds >= 1
        /\ creq.key = creq'.key
        /\ creq.at = now)
       => cret' = Ok(creq.value)]_vars

IsCacheStep(op) == cacheOps' = cacheOps + 1 /\ creq'.op = op

\* C11: a get that returns a value adds one to hits and leaves misses alone;
\* a get that returns Expired or NotFound adds one to misses and leaves hits
\* alone; set, remove and stats change neither counter.
C11_HitMissAccounting ==
    [][/\ (IsGetStep /\ cret'.kind = "Ok")
            => (stats'.hits = stats.hits + 1 /\ stats'.misses = stats.misses)
       /\ (IsGetStep /\ cret' \in {Err("Expired"), Err("NotFound")})
            => (stats'.misses = stats.misses + 1 /\ stats'.hits = stats.hits)
       /\ IsGetStep
            => (cret'.kind = "Ok" \/ cret' \in {Err("Expired"), Err("NotFound")})
       /\ (IsCacheStep("set") \/ IsCacheStep("remove") \/ IsCacheStep("stats"))
            => (stats'.hits = stats.hits /\ stats'.misses = stats.misses)]_vars

C11_Witness ==
    /\ creq.op = "get"
    /\ cret = Err("Expired")
    /\ stats.hits = 1
    /\ stats.misses = 1

\* The store of a set step right after its write, before evict_if_needed.
Written ==
    [db EXCEPT ![as_cache_key(creq'.key)] =
        to_vec(CacheEntry_new(creq'.value, creq'.ttl_seconds, now))]

\* The entries a set step deletes, and those it keeps.
Deleted == {ks \in Present(Written) : db'[ks] = NoEntry}

Kept == Present(Written) \ Deleted

\* A set step whose write leaves the store above the byte budget.
IsSetOverBudget ==
    IsCacheStep("set") /\ calculate_size(Written) > max_size_bytes

CachedAt(ks) == from_slice(Written[ks]).cached_at

\* C12: a set that leaves N entries above the byte budget deletes exactly
\* max(1, N div 4) entries, and they are the oldest by cached_at: no deleted
\* entry is newer than a kept one, and of two entries with equal cached_at
\* the one written earlier is deleted first (the entry just written is the
\* latest written of all).
C12_EvictOldestQuarter ==
    [][IsSetOverBudget =>
          LET n == Cardinality(Present(Written))
          IN /\ Cardinality(Deleted) = (IF n \div 4 > 1 THEN n \div 4 ELSE 1)
             /\ \A d \in Deleted, k \in Kept :
                   \/ CachedAt(d) < CachedAt(k)
                   \/ /\ CachedAt(d) = CachedAt(k)
                      /\ d # as_cache_key(creq'.key)]_vars

\* C13: once a set has returned Ok, the total stored size (key and value
\* byte lengths of every entry) is at most the byte budget.
C13_CapacityBounded ==
    (creq.op = "set" /\ cret.kind = "Ok")
        => calculate_size(db) <= max_size_bytes

\* The store d with every entry's ttl_seconds replaced by t.
WithTtl(d, t) ==
    [ks \in KeyStrs |->
        IF d[ks] = NoEntry THEN NoEntry ELSE [d[ks] EXCEPT !.json.ttl_seconds = t]]

C15_EvictionsCounter ==
    [][/\ IsCacheStep("set")
            => /\ stats'.evictions = stats.evictions + Cardinality(Deleted)
               /\ calculate_size(Written) <= max_size_bytes
                     => stats'.evictions = stats.evictions
       /\ (IsGetStep \/ IsCacheStep("remove"))
            => stats'.evictions = stats.evictions]_vars

\* An eviction has been counted, and a later get that found its entry
\* expired, and deleted it, has not changed the counter.
C15_Witness ==
    /\ stats.evictions = 1
    /\ creq.op = "get"
    /\ cret = Err("Expired")

\* C16: a set deletes entries only when the total size after its write is
\* strictly greater than the byte budget; at or below the budget the store
\* after the set is the store before it with the entry written for the key.
C16_EvictOnlyAboveBudget ==
    [][IsCacheStep("set") =>
          /\ Deleted # {} => calculate_size(Written) > max_size_bytes
          /\ calculate_size(Written) <= max_size_bytes => db' = Written]_vars

\* A set has left two entries whose total size is exactly the budget.
C16_Witness ==
    /\ creq.op = "set"
    /\ Present(db) = KeyStrs
    /\ calculate_size(db) = max_size_bytes
    /\ stats.evictions = 0

\* C17: a set on a key that already holds an entry, valid or expired, leaves
\* one entry for the key, with the cached_at, ttl_seconds and value of this
\* later write, and a get of the key that follows at once, the later write
\* having a ttl_seconds of at least 1, returns the later value.
C17_LaterSetSupersedes ==
    [][/\ (IsCacheStep("set") /\ db[as_cache_key(creq'.key)] # NoEntry)
            => /\ db'[as_cache_key(creq'.key)] # NoEntry
               /\ from_slice(db'[as_cache_key(creq'.key)])
                     = CacheEntry_new(creq'.value, creq'.ttl_seconds, now)
       /\ (/\ IsGetStep
           /\ creq.op = "set"
           /\ creq.replaced
           /\ creq.key = creq'.key
           /\ creq.at = now
           /\ creq.ttl_seconds >= 1)
            => cret' = Ok(creq.value)]_vars

\* A stored entry whose TTL has elapsed.
IsExpired(d, ks) == d[ks] # NoEntry /\ ~is_valid(from_slice(d[ks]), now)

\* C18: nothing sweeps expired entries.  An expired entry stays stored,
\* unchanged, over every step except a get or a remove of its key, a clear,
\* or a set (which replaces it, or deletes it by capacity eviction when its
\* write leaves the store above the budget); a get or a set of another key
\* within the budget, stats and the passing of time leave it in place, and
\* stats counts it in total_entries and total_size_bytes.
C18_NoSweepOfExpired ==
    [][\A ks \in KeyStrs :
          IsExpired(db, ks) =>
             /\ db'[ks] # db[ks]
                   => \/ (IsGetStep \/ IsCacheStep("remove"))
                            /\ as_cache_key(creq'.key) = ks
                      \/ IsCacheStep("clear")
                      \/ IsCacheStep("set") /\ as_cache_key(creq'.key) = ks
                      \/ IsSetOverBudget /\ ks \in Deleted
             /\ IsCacheStep("stats")
                   => /\ cret'.data.total_entries
                            = Cardinality({k \in KeyStrs : db[k] # NoEntry})
                      /\ cret'.data.total_size_bytes
                            = SumSizes(db, {k \in KeyStrs : db[k] # NoEntry})
                      /\ cret'.data.total_entries >= 1
                      /\ cret'.data.total_size_bytes >= KeyLen(ks) + db[ks].len]_vars

\* stats has just counted two entries, one of them written with a TTL of two
\* seconds that have since elapsed.
C18_Witness ==
    /\ creq.op = "stats"
    /\ cret.data.total_entries = 2
    /\ \E ks \in KeyStrs :
          /\ IsExpired(db, ks)
          /\ from_slice(db[ks]).ttl_seconds = 2
          /\ cret.data.total_size_bytes
                = KeyLen(ks) + db[ks].len
                  + SumSizes(db, Present(db) \ {ks})

\* C19: remove(key) returns Ok and leaves the key absent, whether or not it
\* held an entry; every other key's entry and the hits, misses and evictions
\* counters are unchanged; a get of the key that follows returns NotFound.
C19_RemoveMakesAbsent ==
    [][/\ IsCacheStep("remove")
            => /\ cret' = Ok(<<>>)
               /\ db'[as_cache_key(creq'.key)] = NoEntry
               /\ \A k \in KeyStrs \ {as_cache_key(creq'.key)} : db'[k] = db[k]
               /\ stats'.hits = stats.hits
               /\ stats'.misses = stats.misses
               /\ stats'.evictions = stats.evictions
       /\ (IsGetStep /\ creq.op = "remove" /\ creq.key = creq'.key)
            => cret' = Err("NotFound")]_vars

\* Both keys were written and stayed stored, then one was removed: it is
\* absent and the other is still there.
C19_Witness ==
    /\ creq.op = "remove"
    /\ cacheOps = 3
    /\ writtenKeys = KeyStrs
    /\ stats.evictions = 0
    /\ db[as_cache_key(creq.key)] = NoEntry
    /\ Cardinality(Present(db)) = 1

\* C20: after clear every key is absent and the hits, misses and evictions
\* counters are 0; a get that follows returns NotFound and a stats that
\* follows reports total_entries = 0 and total_size_bytes = 0.
C20_ClearResets ==
    [][/\ IsCacheStep("clear")
            => /\ cret' = Ok(<<>>)
               /\ \A k \in KeyStrs : db'[k] = NoEntry
               /\ stats'.hits = 0
               /\ stats'.misses = 0
               /\ stats'.evictions = 0
       /\ (IsGetStep /\ creq.op = "clear") => cret' = Err("NotFound")
       /\ (IsCacheStep("stats") /\ creq.op = "clear")
            => /\ cret'.data.total_entries = 0
               /\ cret'.data.total_size_bytes = 0]_vars

\* clear has run on a store that two sets had filled.
C20_Witness ==
    /\ creq.op = "clear"
    /\ cacheOps = 3
    /\ writtenKeys = KeyStrs
    /\ max_size_bytes = 2 * ModelMb
    /\ Present(db) = {}

(***************************************************************************)
(* Properties of the providers.                                            *)
(***************************************************************************)
HnReturned == hn_pc = "done"

SpReturned == sp_pc = "done"

\* C21: for every provider and every limit, a successful fetch_items(limit)
\* returns at most limit items, and a successful
\* fetch_items_with_offset(offset, limit) returns at most limit items.
C21_AtMostLimit ==
    /\ (HnReturned /\ hn_ret.ok) => Len(hn_ret.items) <= hn_req.limit
    /\ (SpReturned /\ sp_ret.ok) => Len(sp_ret.items) <= sp_req.limit

\* Reddit's fetch_items(2) has returned two of the four entries that the two
\* subreddits delivered.
C21_Witness ==
    /\ SpReturned
    /\ sp_req.provider = "reddit"
    /\ sp_req.limit = 2
    /\ \A i \in 1..Len(sp_subs) : sp_subs[i] = "ok"
    /\ sp_ret.ok
    /\ Len(sp_ret.items) = 2

\* The Finnhub instance as the registry sees it, and a registry holding it.
FinnhubInstance ==
    [id |-> "finnhub", gen |-> 1, status |-> FinnhubStatus(api_key)]

FinnhubRegistered ==
    [id \in ProviderIds |-> IF id = "finnhub" THEN FinnhubInstance ELSE NoProvider]

\* C22: with an empty API key Finnhub's status() is NeedsConfig and its
\* fetch_items returns NotConfigured before any network request is sent; so
\* fetch_all, which calls the ready providers only, never calls it, and
\* fetch_from, which hands back what fetch_items returns, gives NotConfigured.
C22_FinnhubNotConfigured ==
    api_key = ""
        => /\ FinnhubStatus(api_key) = "NeedsConfig"
           /\ Ready(<<"finnhub">>, FinnhubRegistered) = <<>>
           /\ FetchFromLookup(FinnhubRegistered, "finnhub") = FinnhubInstance
           /\ (sp_req.provider = "finnhub" /\ sp_req.op = "fetch_items")
                => /\ SpReturned
                   /\ sp_ret = ProviderErr("NotConfigured")
                   /\ sp_sent = 0

\* fetch_items(2) of a Finnhub provider without a key has returned.
C22_Witness ==
    /\ api_key = ""
    /\ sp_req = SpReq("finnhub", "fetch_items", 0, 2)
    /\ SpReturned
    /\ sp_ret = ProviderErr("NotConfigured")

\* The ways a request fails: send() fails or times out, or the body does.
Failures == NetOutcomes \ {"ok"}

\* An item request of the Hacker News call in progress has failed.
HnItemRequestFailed == \E i \in 1..Len(hn_ids) : kind_of(hn_ids[i]) = "unreachable"

\* C23: for every provider, when a network request made by fetch_items fails
\* or exceeds its timeout, fetch_items returns a Network error: never a
\* successful (empty or partial) result in place of the error.  Stated for
\* the item requests of Hacker News and the feed requests of Reddit.
C23_SwallowedFailure ==
    /\ (HnReturned /\ hn_req.op = "fetch_items" /\ HnItemRequestFailed)
            => hn_ret = ProviderErr("Network")
    /\ (SpReturned /\ sp_req.provider = "reddit"
            /\ \E i \in 1..Len(sp_subs) : sp_subs[i] \in Failures)
            => sp_ret = ProviderErr("Network")

\* C24: a Hacker News fetch_items_with_offset call always completes once its
\* network requests complete: it never waits forever on the lock of the ID
\* cache (nor dies on it), also when the cache is empty and the call fetches
\* and stores the list itself, and the lock is not held while a network
\* request is pending.
C24_OffsetNeverStuckOnLock ==
    hn_req.op = "fetch_items_with_offset"
        => /\ hn_pc \notin RelockOutcomes
           /\ ~(hn_lock = "held" /\ hn_pc = "list_request")

\* A step that is a set_category call, and one in which an offset query
\* takes its ids from the cached list.
IsSetCategoryStep == provOps' = provOps + 1 /\ hn_pc' = "idle" /\ sp_pc' = "idle"

IsSliceOfCacheStep ==
    /\ hn_req.op = "none"
    /\ hn_req'.op = "fetch_items_with_offset"
    /\ hn_pc' # "list_request"

\* C25: an offset query on Hacker News slices the ID list captured by the
\* most recent ID-list fetch for the current category: set_category empties
\* the cached list, so after a category switch no offset query slices a list
\* captured for the previous category.
C25_OffsetUsesCurrentCategory ==
    [][/\ IsSetCategoryStep => (cached_ids' = <<>> /\ cached_for' = "none")
       /\ IsSliceOfCacheStep
            => /\ cached_for = category
               /\ cached_ids = HnListing(category)
               /\ hn_ids' = Take(Skip(HnListing(category), hn_req'.offset),
                                 hn_req'.limit)]_vars

\* After a switch from Top to New and a fetch_items that captured the New
\* list, an offset query has sliced the cached list.
C25_Witness ==
    /\ prev_category = "Top"
    /\ category = "New"
    /\ cached_for = "New"
    /\ hn_req = [op |-> "fetch_items_with_offset", offset |-> 1, limit |-> 2]
    /\ hn_ids = <<HnTopLen + 2>>
    /\ hn_pc = "loop"

\* C26: for a provider with offset support, fetch_items_with_offset(offset,
\* limit) returns the items at positions offset .. offset+limit-1 of the
\* provider's listing (fewer only at the end of the listing, none past it),
\* for every offset and limit, so that appending the result to the items
\* already held neither repeats nor skips an item.  crates.io is the
\* provider whose supports_offset() is true.
C26_OffsetWindow ==
    sp_req.op = "fetch_items_with_offset"
        => /\ sp_pc # "panicked"
           /\ (SpReturned /\ sp_ret.ok)
                => sp_ret.items = Take(Skip(ListingOf(CratesTotal), sp_req.offset),
                                       sp_req.limit)

\* The ids of the current category's list whose items are live, and whether
\* every item request of the list would be answered with an item.
LiveIds(cat) == SelectSeq(HnListing(cat), LAMBDA id : kind_of(id) = "live")

AllAnswered(cat) ==
    \A i \in 1..Len(HnListing(cat)) :
        kind_of(HnListing(cat)[i]) \in {"live", "dead", "deleted"}

\* C27: Hacker News fetch_items never returns a deleted or dead item, and
\* such items are not counted against limit: when the listing has at least
\* limit live items, fetch_items(limit) returns limit items even if deleted
\* or dead items precede them.
C27_DeadNotCounted ==
    (HnReturned /\ hn_req.op = "fetch_items" /\ hn_ret.ok)
        => /\ \A i \in 1..Len(hn_ret.items) : kind_of(hn_ret.items[i]) = "live"
           /\ (AllAnswered(category) /\ Len(LiveIds(category)) >= hn_req.limit)
                => Len(hn_ret.items) = hn_req.limit

\* C28: in the item-body fetch of Hacker News at most one batch is in
\* flight (at most 10 requests in fetch_items, 25 in fetch_items_by_ids), no
\* request of the next batch is issued before every request of the current
\* batch has completed, and the returned items keep the order of the ID list.
C28_OneBatchInFlight ==
    [][/\ hn_req'.op = "fetch_items" => hn_inflight' <= 10
       /\ hn_req'.op = "fetch_items_with_offset" => hn_inflight' <= 25
       /\ hn_inflight' > hn_inflight => hn_inflight = 0
       /\ (hn_pc' = "done" /\ hn_ret'.ok)
            => hn_ret'.items
                 = SelectSeq(hn_ids', LAMBDA id : kind_of(id) = "live")]_vars

\* fetch_items_with_offset(1, 26) has fetched ids 2..27 in two batches, of 25
\* and of 1, and returned the 25 live ones of them.
C28_Witness ==
    /\ hn_req = [op |-> "fetch_items_with_offset", offset |-> 1, limit |-> 26]
    /\ HnReturned
    /\ kind_of(2) = "dead"
    /\ hn_pos = 51
    /\ hn_ret = ProviderOk([i \in 1..25 |-> i + 2])

(***************************************************************************)
(* Properties of the comment trees.                                        *)
(***************************************************************************)
CommentsReturned == c_pc = "done" /\ c_ret.ok

\* The depth of node n in the response, and whether n and every node above
\* it is a complete comment.
RECURSIVE SourceDepth(_)
SourceDepth(n) == IF c_parent[n] = 0 THEN 0 ELSE SourceDepth(c_parent[n]) + 1

RECURSIVE UnderComments(_)
UnderComments(n) ==
    /\ c_kind[n] = "t1"
    /\ c_parent[n] # 0 => UnderComments(c_parent[n])

\* The ids of the comments of a returned tree.
RECURSIVE CommentIds(_)
CommentIds(cs) ==
    UNION {{cs[i].id} \cup CommentIds(cs[i].replies) : i \in 1..Len(cs)}

\* Every comment of cs, found level steps below the top of the returned
\* tree, and every comment below it: at most d deep, no replies at d.
RECURSIVE WithinDepth(_, _, _)
WithinDepth(cs, level, d) ==
    \A i \in 1..Len(cs) :
        /\ level <= d
        /\ cs[i].depth <= d
        /\ level = d => cs[i].replies = <<>>
        /\ WithinDepth(cs[i].replies, level + 1, d)

\* C29: a comment-tree fetch with max_depth = d returns only nodes of depth
\* at most d: the nodes at depth d are present, with zero replies, and no
\* deeper node is returned.
C29_DepthBounded ==
    CommentsReturned
        => /\ WithinDepth(c_ret.items, 0, c_max_depth)
           /\ CommentIds(c_ret.items)
                = {n \in 1..Len(c_parent) :
                     UnderComments(n) /\ SourceDepth(n) <= c_max_depth}

\* A chain of four comments fetched with max_depth = 2: the first three are
\* returned, the third without replies.
C29_Witness ==
    /\ CommentsReturned
    /\ c_parent = <<0, 1, 2, 3>>
    /\ c_kind = <<"t1", "t1", "t1", "t1">>
    /\ c_max_depth = 2
    /\ CommentIds(c_ret.items) = {1, 2, 3}

\* The comments of cs have depth d, and their replies one more, and so on.
RECURSIVE DepthsLinked(_, _)
DepthsLinked(cs, d) ==
    \A i \in 1..Len(cs) :
        /\ cs[i].depth = d
        /\ DepthsLinked(cs[i].replies, cs[i].depth + 1)

\* C30: in every returned comment tree the top-level comments have depth 0
\* and each reply's depth is its parent's depth + 1, also below source nodes
\* that are skipped because they are not comments or lack required fields.
C30_DepthIsParentPlusOne ==
    CommentsReturned => DepthsLinked(c_ret.items, 0)

\* A tree with skipped nodes on the top level and among the replies of
\* comment 2, whose reply 4 is returned with depth 1.
C30_Witness ==
    /\ CommentsReturned
    /\ c_parent = <<0, 0, 2, 2>>
    /\ c_kind = <<"more", "t1", "t1_partial", "t1">>
    /\ c_max_depth = 3
    /\ c_ret.items = <<[Comment_new(2) EXCEPT
                          !.replies = <<[Comment_new(4) EXCEPT !.depth = 1]>>]>>

\* HnComment::new (models/hn.rs 129): collapsed is depth > 2.
display_threshold == 2

RECURSIVE CollapsedByDepth(_)
CollapsedByDepth(cs) ==
    \A i \in 1..Len(cs) :
        /\ cs[i].collapsed = (cs[i].depth > display_threshold)
        /\ CollapsedByDepth(cs[i].replies)

\* C32: every comment of a returned tree is pre-collapsed exactly when its
\* depth is above the display threshold of 2, whatever max_depth is: with
\* max_depth = 3 the comments of depth 3 come back collapsed, those of depth
\* 0 to 2 not.
C32_CollapsedBeyondThreshold ==
    CommentsReturned => CollapsedByDepth(c_ret.items)

\* C35: after any sequence of register, register_arc and remove, order holds
\* no id twice and holds exactly the keys of the provider map, so len(), the
\* length of ids() and the length of all() are equal and get(id) is Some
\* exactly for the ids of ids().
C35_RegistryConsistent ==
    /\ NoDup(order)
    /\ Range(order) = {id \in ProviderIds : contains_key(providers, id)}
    /\ len(providers) = Len(ids(order))
    /\ Len(ids(order)) = Len(All(order, providers))
    /\ \A id \in ProviderIds :
          get(providers, id) # NoProvider <=> id \in Range(ids(order))

\* A remove has taken a registered provider out and two are left.
C35_Witness ==
    /\ req.op = "remove"
    /\ ret.p # NoProvider
    /\ Len(order) = 2
    /\ regOps >= 4

(***************************************************************************)
(* Properties of the application.                                          *)
(***************************************************************************)
FeedFetches == {"fetch_all", "fetch_from", "load_more"}

FetchInFlight == app_pc = "await" /\ app_req.op \in FeedFetches

\* C31: at most one feed fetch is in flight: a fetch (fetch all, fetch one
\* provider, load more) starts only while loading is false, loading is set
\* as long as the fetch is in flight, and loading is false whenever the event
\* loop polls for the next key event.
C31_OneFetchAtATime ==
    [][/\ (~FetchInFlight /\ FetchInFlight') => (~loading /\ loading')
       /\ FetchInFlight' => loading'
       /\ app_pc' = "poll" => ~loading']_vars

\* A load-more has added an item and loading is reset.
C31_Witness ==
    /\ app_pc = "top"
    /\ ~loading
    /\ app_res = [op |-> "load_more", ok |-> TRUE]
    /\ Len(app_items) = MaxFeed + 1

(***************************************************************************)
(* Properties of CacheManager::new and of undecodable records.             *)
(***************************************************************************)
\* CacheManager::new has returned and no operation has run yet.
JustOpened == open_pc = "opened" /\ cacheOps = 0

\* C33: when the first open of the store fails, the store directory is
\* discarded and reopened, so the cache starts empty with all counters 0;
\* CacheManager::new returns an error only when the second open fails too.
C33_RecoveredStoreIsEmpty ==
    /\ (JustOpened /\ open_ret.opens = 2)
          => (Present(db) = {} /\ stats = CacheStats_default)
    /\ open_pc = "failed" => (open_ret.kind = "Err" /\ open_ret.opens = 2)
    /\ open_ret.kind = "Err" => open_pc = "failed"

\* The step is a get of a key whose stored bytes do not deserialize.
IsUndecodableGet ==
    /\ cacheOps' = cacheOps + 1
    /\ creq'.op = "get"
    /\ db[as_cache_key(creq'.key)] # NoEntry
    /\ ~from_slice_ok(db[as_cache_key(creq'.key)])

\* C34: a get whose stored bytes cannot be deserialized into the requested
\* type returns a Serialization error and changes nothing: the entry stays
\* stored and the hit and miss counters keep their values.
C34_SerializationErrorChangesNothing ==
    [][IsUndecodableGet =>
          /\ cret' = Err("Serialization")
          /\ db' = db
          /\ stats'.hits = stats.hits
          /\ stats'.misses = stats.misses]_vars

\* A get has answered Serialization for a record that is still stored.
C34_Witness ==
    /\ cret = Err("Serialization")
    /\ creq.op = "get"
    /\ db[as_cache_key(creq.key)] = Undecodable
    /\ stats = CacheStats_default

\* The step is Back in the Article view.
IsBackFromArticle ==
    state = Article /\ state'.view \in {"Dashboard", "Feed"}

\* C36: Back from the Article view returns to the list view in which the
\* article was opened, Dashboard or Feed(id); so the state is Feed(id) only
\* over a list of items of provider id.
C36_BackToOpeningView ==
    [][/\ IsBackFromArticle => state' = opened_from
       /\ (IsBackFromArticle /\ state'.view = "Feed") =>
             \A i \in 1..Len(app_items') :
                 app_items'[i].provider_id = state'.id]_vars

\* C37: whenever the view is Article or Comments an item is open:
\* current_item is present.
C37_OpenItemPresent ==
    state \in {Article, Comments} => current_item # NoItem

\* The comments of the second item are shown, reached with NextArticle.
C37_Witness ==
    /\ state = Comments
    /\ selected_idx = 1
    /\ current_item = app_items[2]
    /\ comments # <<>>

\* C38: selected_idx is 0 when the list is empty and an index of the list
\* otherwise.
C38_SelectionInBounds ==
    IF app_items = <<>> THEN selected_idx = 0
    ELSE selected_idx < Len(app_items)

\* The last of three items is selected and a fetch of the provider has
\* failed, which leaves list and selection as they were.
C38_Witness ==
    /\ Len(app_items) = 3
    /\ selected_idx = 2
    /\ app_res = [op |-> "fetch_from", ok |-> FALSE]

\* The step is load_more_items, or the part of it before or after its await.
IsLoadMoreStep ==
    \/ app_req'.op = "load_more" /\ app_req.op = "none"
    \/ app_req.op = "load_more"
    \/ app_res'.op = "load_more"

\* C39: a load-more keeps every item at its position and leaves selected_idx
\* unchanged; it adds items only in Feed(id) for a provider that supports
\* offsets (crates.io) and whose offset fetch succeeds, and adds nothing in
\* Dashboard, for a provider without offset support, or on an error.
C39_LoadMoreAppendsOnly ==
    [][IsLoadMoreStep =>
          /\ Len(app_items') >= Len(app_items)
          /\ SubSeq(app_items', 1, Len(app_items)) = app_items
          /\ selected_idx' = selected_idx
          /\ state' = state
          /\ app_items' # app_items =>
                /\ state = Feed("cratesio")
                /\ app_res' = [op |-> "load_more", ok |-> TRUE]
          /\ (state.view # "Feed" \/ state.id # "cratesio" \/ ~app_res'.ok) =>
                app_items' = app_items]_vars

\* NavigateDown on the last of two crates has loaded a third.
C39_Witness ==
    /\ state = Feed("cratesio")
    /\ app_res = [op |-> "load_more", ok |-> TRUE]
    /\ Len(app_items) = 3
    /\ selected_idx = 1
    /\ app_items[3].provider_id = "cratesio"

\* C40: after ViewComments the event loop loads the comments exactly once
\* before it handles the next key event; comments_loading is false after the
\* load whatever its outcome, and the load is not repeated while the
\* Comments view stays open.
C40_OneCommentLoad ==
    state = Comments =>
        /\ comment_loads <= 1
        /\ app_pc \in {"poll", "done"} => comment_loads = 1
        /\ (comment_loads = 1 /\ app_pc # "await") => ~comments_loading

\* The fetch of the comments failed; the loop has polled since and the
\* Comments view is still open with nothing loaded.
C40_Witness ==
    /\ state = Comments
    /\ app_pc = "top"
    /\ comment_loads = 1
    /\ comments = <<>>
    /\ current_item.provider_id = "reddit"
    /\ app_res = NoResult

====
